---- MODULE Spec2Model ----
(***************************************************************************)
(* gptcli: a terminal chat client that keeps named conversations, per-chat *)
(* configuration and usage statistics as JSON files under conversations/.  *)
(*                                                                         *)
(* The module models                                                       *)
(*   - the session store of gptcli.py (paths, JSON read/write helpers),    *)
(*   - the CLI input loop of gptcli.main,                                  *)
(*   - the send flow of the Textual UI (ui/app.py, ui/widgets/*.py).       *)
(*                                                                         *)
(* Python values: a str is a string, an int or float a number (cost in     *)
(* price-units per million tokens, time in clock ticks), a dict a function *)
(* on its keys, a list a sequence, and an Optional value a sequence of     *)
(* length 0 (None) or 1.  A falsy string (None or "") is "".               *)
(***************************************************************************)
EXTENDS Integers, Sequences, FiniteSets, TLC

VARIABLES
    files,          \* the files on disk: path -> content of the file
    dirs,           \* the directories that exist
    ret,            \* what the last call of a store function returned
    lastSaved,      \* chat -> the value last given to save_conversation (in the
                    \* chat config specification: to save_chat_config), Optional
    fresh,          \* chat -> no statistics file existed initially
    acc,            \* chat -> sums of the arguments of update_statistics so far
    ops,            \* number of store calls made
    \* the CLI session (the locals of gptcli.main)
    pc,                     \* where main is: "start", "prompt", "stream",
                            \* "fallback" (requests in flight), "exited", "crashed"
    chat_name,
    messages,
    chat_config,
    current_model,
    current_system_prompt,
    api_messages,           \* the payload of the request in flight
    inputs,                 \* number of lines read so far
    outcome,                \* how the last line read ended
    user_input,             \* the last line read
    atPrompt,               \* messages, files, session and last payload when the
                            \* last line was read
    retry,                  \* a failed text, entered again (Optional)
    succeeded,              \* chat -> exchanges completed successfully
    \* the Textual UI (ui/app.py, ui/widgets)
    ui_pc,                  \* "off", "running"
    ui_chats,               \* names of the chats in the chat list
    ui_selected,            \* name of the highlighted chat, "" when none
    ui_last,                \* the last action of the UI, for a delete with the
                            \* chat, the answer of the modal and the files before
    ui_deleted,             \* the chats deleted and not created or sent to since,
                            \* each with the workers in flight when it was deleted
    workers                 \* the worker threads started, in order; each has its
                            \* chat, the text sent, the list it shares with the
                            \* sender, the conversation before the send, pc, and
                            \* the number of callbacks marshalled to the UI thread

storeVars == <<ret, lastSaved, fresh, acc, ops>>

cliVars == <<pc, chat_name, messages, chat_config, current_model,
             current_system_prompt, api_messages, inputs, outcome, user_input,
             atPrompt, retry, succeeded>>

uiVars == <<ui_pc, ui_chats, ui_selected, ui_last, ui_deleted, workers>>

---------------------------------------------------------------------------
(* Bounds of the model *)

\* store calls per behaviour of the store specifications
MaxOps == 3

\* messages sent in one UI session that also deletes chats
MaxDeleteSends == 2

\* lines read by one CLI session
MaxInputs == 3

\* messages sent in one UI session
MaxSends == 3

\* largest token count given to calculate_cost when it is called directly
MaxTokens == 4

\* bits of the significand the floating-point arithmetic of the model keeps
\* (a Python float keeps 53; every operation rounds to nearest, ties to even)
FloatPrecision == 8

---------------------------------------------------------------------------
(* Values *)

None == <<>>
Some(v) == <<v>>

\* the chat names used
Chats == {"a", "b"}

\* keys of a message record, in the order a message is written
MessageKeys == <<"role", "content", "model", "timestamp">>

Range(s) == {s[i] : i \in DOMAIN s}

---------------------------------------------------------------------------
(* File contents.  A file holds bytes; what the program reads from it is   *)
(* decided by whether the bytes decode as UTF-8, whether the text parses   *)
(* as JSON, and the JSON document it denotes.                              *)

NotUtf8 == [kind |-> "notutf8"]
NotJson == [kind |-> "notjson"]
JStr(s) == [kind |-> "str", s |-> s]
JNum(n) == [kind |-> "num", n |-> n]
JObj(pairs) == [kind |-> "obj", pairs |-> pairs]
JList(items) == [kind |-> "list", items |-> items]

\* the keys of `d` in the order of `order` (a dict is written in key order)
OrderedKeys(d, order) == SelectSeq(order, LAMBDA k : k \in DOMAIN d)

\* json.dump of a dict of strings / of numbers
json_dump_strs(d, order) ==
    LET ks == OrderedKeys(d, order)
    IN  JObj([i \in 1..Len(ks) |-> <<ks[i], JStr(d[ks[i]])>>])

json_dump_nums(d, order) ==
    LET ks == OrderedKeys(d, order)
    IN  JObj([i \in 1..Len(ks) |-> <<ks[i], JNum(d[ks[i]])>>])

\* json.dump of a list of message dicts
json_dump_messages(msgs) ==
    JList([i \in 1..Len(msgs) |-> json_dump_strs(msgs[i], MessageKeys)])

\* the value a parsed JSON document denotes in Python (json.load):
\* an object becomes a dict (a later duplicate key wins), an array a list
RECURSIVE json_value(_)
json_value(j) ==
    CASE j.kind = "str" -> j.s
      [] j.kind = "num" -> j.n
      [] j.kind = "obj" ->
            LET ps == j.pairs
                last(k) == CHOOSE i \in DOMAIN ps :
                               /\ ps[i][1] = k
                               /\ \A m \in DOMAIN ps : ps[m][1] = k => m <= i
            IN  [k \in {ps[i][1] : i \in DOMAIN ps} |-> json_value(ps[last(k)][2])]
      [] j.kind = "list" -> [i \in 1..Len(j.items) |-> json_value(j.items[i])]

\* with open(path, 'r', encoding='utf-8') as f: data = json.load(f), on the files fs
\* exc names the exception the read raises, "" when it returns
read_json(fs, path) ==
    IF path \notin DOMAIN fs THEN [exc |-> "IOError"]
    ELSE IF fs[path].kind = "notutf8" THEN [exc |-> "UnicodeDecodeError"]
    ELSE IF fs[path].kind = "notjson" THEN [exc |-> "JSONDecodeError"]
    ELSE [exc |-> "", doc |-> fs[path]]

\* the files after `path` has been written with `doc`
write_file(fs, path, doc) ==
    [p \in DOMAIN fs \cup {path} |-> IF p = path THEN doc ELSE fs[p]]

\* the files after os.remove(path)
remove_file(fs, path) == [p \in DOMAIN fs \ {path} |-> fs[p]]

---------------------------------------------------------------------------
(* Paths *)

CONVERSATIONS_DIR == "conversations"

join(dir, name) == dir \o "/" \o name

\* each get_*_path returns the path and creates the directories in `made`
get_conversation_path(name) ==
    [path |-> join(CONVERSATIONS_DIR, name \o ".json"),
     made |-> {CONVERSATIONS_DIR}]

get_stats_path(name) ==
    [path |-> join(join(CONVERSATIONS_DIR, "statistics"), name \o ".json"),
     made |-> {CONVERSATIONS_DIR, join(CONVERSATIONS_DIR, "statistics")}]

get_chat_config_path(name) ==
    [path |-> join(CONVERSATIONS_DIR, name \o ".config.json"),
     made |-> {CONVERSATIONS_DIR}]

get_system_prompt_path(name) ==
    [path |-> join(join(CONVERSATIONS_DIR, "system_prompts"), name \o ".json"),
     made |-> {CONVERSATIONS_DIR, join(CONVERSATIONS_DIR, "system_prompts")}]

---------------------------------------------------------------------------
(* Conversations *)

\* msgs sent with a request: msgs[-10:]
WindowSize == 10

\* the last n elements of s (s[-n:])
LastN(s, n) == IF Len(s) > n THEN SubSeq(s, Len(s) - n + 1, Len(s)) ELSE s

\* load_conversation returning only the window that is sent to the API
load_conversation_windowed(fs, name) ==
    LET file_path == get_conversation_path(name).path
        r == read_json(fs, file_path)
    IN  IF file_path \notin DOMAIN fs \/ r.exc \in {"JSONDecodeError", "IOError"}
        THEN [exc |-> "", value |-> <<>>]
        ELSE IF r.exc # "" THEN [exc |-> r.exc]
        ELSE IF r.doc.kind # "list" THEN [exc |-> "", value |-> <<>>]
        ELSE [exc |-> "", value |-> LastN(json_value(r.doc), WindowSize)]

\* load_conversation: the list it returns, or the exception it raises.
\* Only JSONDecodeError and IOError are caught.
load_conversation(fs, name) ==
    LET file_path == get_conversation_path(name).path
        r == read_json(fs, file_path)
    IN  IF file_path \notin DOMAIN fs THEN [exc |-> "", value |-> <<>>]
        ELSE IF r.exc \in {"JSONDecodeError", "IOError"} THEN [exc |-> "", value |-> <<>>]
        ELSE IF r.exc # "" THEN [exc |-> r.exc]
        ELSE IF r.doc.kind = "str" THEN [exc |-> "", value |-> <<>>]
        ELSE IF r.doc.kind # "list" THEN [exc |-> "", value |-> <<>>]
        ELSE [exc |-> "", value |-> json_value(r.doc)]

\* save_conversation writing only the window that is sent to the API
save_conversation_windowed(fs, name, msgs) ==
    write_file(fs, get_conversation_path(name).path,
               json_dump_messages(LastN(msgs, WindowSize)))

\* save_conversation: the files after the call
save_conversation(fs, name, msgs) ==
    write_file(fs, get_conversation_path(name).path, json_dump_messages(msgs))

---------------------------------------------------------------------------
(* Statistics *)

StatKeys == <<"total_input_tokens", "total_output_tokens", "total_tokens",
              "total_cost", "total_time", "request_count">>

DefaultStats == [k \in Range(StatKeys) |-> 0]

\* load_statistics: the record it returns, or the exception it raises.
\* data.get on parsed JSON that is no object raises AttributeError.
load_statistics(fs, name) ==
    LET file_path == get_stats_path(name).path
        r == read_json(fs, file_path)
    IN  IF file_path \notin DOMAIN fs THEN [exc |-> "", value |-> DefaultStats]
        ELSE IF r.exc \in {"JSONDecodeError", "IOError"} THEN [exc |-> "", value |-> DefaultStats]
        ELSE IF r.exc # "" THEN [exc |-> r.exc]
        ELSE IF r.doc.kind # "obj" THEN [exc |-> "AttributeError"]
        ELSE LET data == json_value(r.doc)
             IN  [exc |-> "",
                  value |-> [k \in Range(StatKeys) |->
                                IF k \in DOMAIN data THEN data[k] ELSE 0]]

\* save_statistics: the files after the call
save_statistics(fs, name, stats) ==
    write_file(fs, get_stats_path(name).path, json_dump_nums(stats, StatKeys))

\* add_statistics with the cost assigned instead of added
add_statistics_cost_assigned(stats, input_tokens, output_tokens, total_tokens, cost, elapsed_time) ==
    [stats EXCEPT
        !["total_input_tokens"] = @ + input_tokens,
        !["total_output_tokens"] = @ + output_tokens,
        !["total_tokens"] = @ + total_tokens,
        !["total_cost"] = IF cost # None THEN cost[1] ELSE @,
        !["total_time"] = @ + elapsed_time,
        !["request_count"] = @ + 1]

\* add_statistics without counting the request
add_statistics_uncounted(stats, input_tokens, output_tokens, total_tokens, cost, elapsed_time) ==
    [stats EXCEPT
        !["total_input_tokens"] = @ + input_tokens,
        !["total_output_tokens"] = @ + output_tokens,
        !["total_tokens"] = @ + total_tokens,
        !["total_cost"] = IF cost # None THEN @ + cost[1] ELSE @,
        !["total_time"] = @ + elapsed_time]

\* the record update_statistics saves, from the loaded one and its arguments
add_statistics(stats, input_tokens, output_tokens, total_tokens, cost, elapsed_time) ==
    [stats EXCEPT
        !["total_input_tokens"] = @ + input_tokens,
        !["total_output_tokens"] = @ + output_tokens,
        !["total_tokens"] = @ + total_tokens,
        !["total_cost"] = IF cost # None THEN @ + cost[1] ELSE @,
        !["total_time"] = @ + elapsed_time,
        !["request_count"] = @ + 1]

\* update_statistics that starts from zero instead of the loaded statistics
update_statistics_from_zero(fs, name, input_tokens, output_tokens, total_tokens, cost, elapsed_time) ==
    IF name = "" THEN [exc |-> "", files |-> fs]
    ELSE [exc |-> "",
          files |-> save_statistics(fs, name,
                       add_statistics(DefaultStats, input_tokens, output_tokens,
                                      total_tokens, cost, elapsed_time))]

\* update_statistics without the return for a temporary conversation
update_statistics_unnamed_saved(fs, name, input_tokens, output_tokens, total_tokens, cost, elapsed_time) ==
    LET l == load_statistics(fs, name)
    IN  IF l.exc # "" THEN [exc |-> l.exc, files |-> fs]
        ELSE [exc |-> "",
              files |-> save_statistics(fs, name,
                           add_statistics(l.value, input_tokens, output_tokens,
                                          total_tokens, cost, elapsed_time))]

\* update_statistics: the files after the call, or the exception it raises
update_statistics(fs, name, input_tokens, output_tokens, total_tokens, cost, elapsed_time) ==
    IF name = "" THEN [exc |-> "", files |-> fs]
    ELSE LET l == load_statistics(fs, name)
         IN  IF l.exc # "" THEN [exc |-> l.exc, files |-> fs]
             ELSE [exc |-> "",
                   files |-> save_statistics(fs, name,
                                add_statistics(l.value, input_tokens, output_tokens,
                                               total_tokens, cost, elapsed_time))]

\* the directories update_statistics makes sure exist
update_statistics_made(name) ==
    IF name = "" THEN {} ELSE get_stats_path(name).made

---------------------------------------------------------------------------
(* Global configuration: config.json as ensure_config_file writes it *)

DEFAULT_MODEL == "gpt-5.1"

\* pricing per million tokens, in hundredths of the configured price unit
MODEL_PRICING == [m \in {"gpt-5.1"} |-> [input |-> 250, output |-> 1000]]

\* the presets DEFAULT_CONFIG holds
DEFAULT_SYSTEM_PROMPTS ==
    [n \in {"default", "python-expert", "friendly-mentor", "data-analyst"} |->
        CASE n = "default" -> "You are a helpful assistant."
          [] n = "python-expert" -> 
             "You are an expert Python programmer. Provide technical, concise answers with code examples."
          [] n = "friendly-mentor" -> 
             "You are a friendly mentor. Use simple language, give practical advice, and be encouraging."
          [] n = "data-analyst" -> 
             "You are a data analysis assistant. Always format responses as structured reports with sections."]

\* the presets config.json adds under "system_prompts" (any string is a name)
ConfiguredSystemPrompts == [n \in {"code review"} |-> "Review the code strictly."]

\* SYSTEM_PROMPTS = CONFIG.get("system_prompts"): the defaults updated with
\* the presets of the config file
SYSTEM_PROMPTS ==
    [n \in DOMAIN DEFAULT_SYSTEM_PROMPTS \cup DOMAIN ConfiguredSystemPrompts |->
        IF n \in DOMAIN ConfiguredSystemPrompts THEN ConfiguredSystemPrompts[n]
        ELSE DEFAULT_SYSTEM_PROMPTS[n]]

\* calculate_cost: None for a model without pricing, else the exact value of
\* the cost in price units per million tokens (the session and the statistics
\* only pass the cost on and add it up; calculate_cost_float keeps the rounding)
calculate_cost(model, input_tokens, output_tokens) ==
    IF model \notin DOMAIN MODEL_PRICING THEN None
    ELSE Some(input_tokens * MODEL_PRICING[model].input
              + output_tokens * MODEL_PRICING[model].output)

---------------------------------------------------------------------------
(* Floating-point arithmetic.  A float is zero or m * 2^e with a significand *)
(* m of FloatPrecision bits; a result that is no such number is rounded to   *)
(* the nearest one, to the one with the even significand when two are        *)
(* equally near.  calculate_cost works on non-negative numbers only.         *)

RECURSIVE Pow2(_)
Pow2(n) == IF n = 0 THEN 1 ELSE 2 * Pow2(n - 1)

FloatZero == [m |-> 0, e |-> 0]

\* the float nearest to (n / d) * 2^e, for integers n >= 0 and d > 0
RECURSIVE round_float(_, _, _)
round_float(n, d, e) ==
    IF n = 0 THEN FloatZero
    ELSE IF n >= d * Pow2(FloatPrecision) THEN round_float(n, 2 * d, e + 1)
    ELSE IF n < d * Pow2(FloatPrecision - 1) THEN round_float(2 * n, d, e - 1)
    ELSE LET q == n \div d
             r == n % d
             up == 2 * r > d \/ (2 * r = d /\ q % 2 = 1)
             m == IF up THEN q + 1 ELSE q
         IN  IF m = Pow2(FloatPrecision)
             THEN [m |-> Pow2(FloatPrecision - 1), e |-> e + 1]
             ELSE [m |-> m, e |-> e]

\* i / j for ints (true division), and a decimal literal i/j read as a float
true_div(i, j) == round_float(i, j, 0)

\* x * y and x + y for floats
float_mul(x, y) == round_float(x.m * y.m, 1, x.e + y.e)

float_add(x, y) ==
    IF x.m = 0 THEN y
    ELSE IF y.m = 0 THEN x
    ELSE LET low == IF x.e < y.e THEN x.e ELSE y.e
         IN  round_float(x.m * Pow2(x.e - low) + y.m * Pow2(y.e - low), 1, low)

\* the float a price of the pricing table stands for (the table holds hundredths)
price_float(p) == true_div(p, 100)

\* calculate_cost that prices the input tokens at the output price
calculate_cost_float_output_price(model_pricing, model, input_tokens, output_tokens) ==
    IF model \notin DOMAIN model_pricing THEN [exc |-> "", value |-> None]
    ELSE LET pricing == model_pricing[model]
         IN  IF "output" \notin DOMAIN pricing THEN [exc |-> "KeyError"]
             ELSE LET input_cost == float_mul(true_div(input_tokens, 1000000),
                                              price_float(pricing.output))
                      output_cost == float_mul(true_div(output_tokens, 1000000),
                                               price_float(pricing.output))
                  IN  [exc |-> "", value |-> Some(float_add(input_cost, output_cost))]

\* calculate_cost as the floats it computes, on the pricing table the module
\* holds: None for a model without an entry, else
\* (input_tokens / 1_000_000) * pricing["input"]
\*   + (output_tokens / 1_000_000) * pricing["output"], each operation rounded;
\* exc names the exception a lookup in the entry raises, "" when it returns
calculate_cost_float(model_pricing, model, input_tokens, output_tokens) ==
    IF model \notin DOMAIN model_pricing THEN [exc |-> "", value |-> None]
    ELSE LET pricing == model_pricing[model]
         IN  IF "input" \notin DOMAIN pricing \/ "output" \notin DOMAIN pricing
             THEN [exc |-> "KeyError"]
             ELSE LET input_cost == float_mul(true_div(input_tokens, 1000000),
                                              price_float(pricing.input))
                      output_cost == float_mul(true_div(output_tokens, 1000000),
                                               price_float(pricing.output))
                  IN  [exc |-> "", value |-> Some(float_add(input_cost, output_cost))]

---------------------------------------------------------------------------
(* The global config file: ensure_config_file, load_config *)

CONFIG_PATH == "config.json"

\* the built-in defaults (the pricing and the presets are the tables above)
DEFAULT_CONFIG ==
    [default_model |-> DEFAULT_MODEL,
     user_name |-> "You",
     user_color |-> "cyan",
     assistant_color |-> "green",
     pricing |-> MODEL_PRICING,
     system_prompts |-> DEFAULT_SYSTEM_PROMPTS]

\* the string-valued keys of the config
ConfigStringKeys == <<"default_model", "user_name", "user_color", "assistant_color">>

\* a Python dict d as the JSON object json.dump writes, its items in the order
\* of `order` and each value written by dump(_)
json_dump_dict(d, order, dump(_)) ==
    LET ks == OrderedKeys(d, order)
    IN  JObj([i \in 1..Len(ks) |-> <<ks[i], dump(d[ks[i]])>>])

\* an order of the elements of the finite set S
RECURSIVE SeqOf(_)
SeqOf(S) ==
    IF S = {} THEN <<>>
    ELSE LET x == CHOOSE x \in S : TRUE IN <<x>> \o SeqOf(S \ {x})

\* json.dump(DEFAULT_CONFIG)
json_dump_config(config) ==
    JObj(<< <<"default_model", JStr(config.default_model)>>,
            <<"user_name", JStr(config.user_name)>>,
            <<"user_color", JStr(config.user_color)>>,
            <<"assistant_color", JStr(config.assistant_color)>>,
            <<"pricing",
              json_dump_dict(config.pricing, SeqOf(DOMAIN config.pricing),
                             LAMBDA pr : json_dump_nums(pr, <<"input", "output">>))>>,
            <<"system_prompts",
              json_dump_dict(config.system_prompts, SeqOf(DOMAIN config.system_prompts),
                             JStr)>> >>)

\* ensure_config_file: the files after the call
ensure_config_file(fs) ==
    IF CONFIG_PATH \in DOMAIN fs THEN fs
    ELSE write_file(fs, CONFIG_PATH, json_dump_config(DEFAULT_CONFIG))

\* data.get(k) on a parsed JSON object: the member written last under k,
\* None when there is none
json_get(obj, k) ==
    LET ps == obj.pairs
        at == {i \in DOMAIN ps : ps[i][1] = k}
    IN  IF at = {} THEN None
        ELSE Some(ps[CHOOSE i \in at : \A m \in at : m <= i][2])

\* isinstance(data.get(k), str) / isinstance(data.get(k), dict)
is_json(obj, k, kind) == json_get(obj, k) # None /\ json_get(obj, k)[1].kind = kind

\* d.update(e) for dicts d and e
dict_update(d, e) == [k \in DOMAIN d \cup DOMAIN e |-> IF k \in DOMAIN e THEN e[k] ELSE d[k]]

\* load_config: the config it returns or the exception it raises, and the
\* files afterwards.  Only IOError and JSONDecodeError are caught.
load_config(fs) ==
    LET fs1 == ensure_config_file(fs)
        r == read_json(fs1, CONFIG_PATH)
    IN  IF r.exc \in {"IOError", "JSONDecodeError"}
        THEN [exc |-> "", value |-> DEFAULT_CONFIG, files |-> fs1]
        ELSE IF r.exc # "" THEN [exc |-> r.exc, files |-> fs1]
        ELSE IF r.doc.kind # "obj" THEN [exc |-> "", value |-> DEFAULT_CONFIG, files |-> fs1]
        ELSE LET data == r.doc
                 str(k) == IF is_json(data, k, "str") THEN json_get(data, k)[1].s
                           ELSE DEFAULT_CONFIG[k]
                 tab(k) == IF is_json(data, k, "obj")
                           THEN dict_update(DEFAULT_CONFIG[k], json_value(json_get(data, k)[1]))
                           ELSE DEFAULT_CONFIG[k]
             IN  [exc |-> "", files |-> fs1,
                  value |-> [default_model |-> str("default_model"),
                             user_name |-> str("user_name"),
                             user_color |-> str("user_color"),
                             assistant_color |-> str("assistant_color"),
                             pricing |-> tab("pricing"),
                             system_prompts |-> tab("system_prompts")]]

---------------------------------------------------------------------------
(* Per-chat configuration *)

ConfigKeys == <<"model", "system_prompt", "last_used">>

\* load_chat_config: the dict it returns, or the exception it raises
load_chat_config(fs, name) ==
    LET file_path == get_chat_config_path(name).path
        r == read_json(fs, file_path)
    IN  IF file_path \notin DOMAIN fs THEN [exc |-> "", value |-> <<>>]
        ELSE IF r.exc \in {"JSONDecodeError", "IOError"} THEN [exc |-> "", value |-> <<>>]
        ELSE IF r.exc # "" THEN [exc |-> r.exc]
        ELSE IF r.doc.kind # "obj" THEN [exc |-> "", value |-> <<>>]
        ELSE [exc |-> "", value |-> json_value(r.doc)]

\* save_chat_config: the files after the call
save_chat_config(fs, name, config) ==
    write_file(fs, get_chat_config_path(name).path, json_dump_strs(config, ConfigKeys))

\* save_system_prompt: the files after the call (a falsy prompt removes the file)
save_system_prompt(fs, name, prompt) ==
    LET file_path == get_system_prompt_path(name).path
    IN  IF prompt = ""
        THEN IF file_path \in DOMAIN fs THEN remove_file(fs, file_path) ELSE fs
        ELSE write_file(fs, file_path, JObj(<< <<"system_prompt", JStr(prompt)>> >>))

\* d.get(k), "" standing for a missing or falsy value
Get(d, k) == IF k \in DOMAIN d THEN d[k] ELSE ""

\* the dict d after d[k] = v
Put(d, k, v) == [x \in DOMAIN d \cup {k} |-> IF x = k THEN v ELSE d[x]]

---------------------------------------------------------------------------
(* The CLI session: gptcli.main *)

\* the system prompt a chat config stands for: the preset it names, else its text
system_prompt_of(config) ==
    LET prompt_name == Get(config, "system_prompt")
    IN  IF prompt_name = "" THEN ""
        ELSE IF prompt_name \in DOMAIN SYSTEM_PROMPTS THEN SYSTEM_PROMPTS[prompt_name]
        ELSE prompt_name

\* load_chat that keeps the model in effect when the chat configures none
load_chat_model_kept(fs, new_chat_name) ==
    IF new_chat_name # ""
    THEN LET c == load_chat_config(fs, new_chat_name)
             m == load_conversation(fs, new_chat_name)
         IN  IF c.exc # "" \/ m.exc # "" THEN [exc |-> "raised"]
             ELSE [exc |-> "",
                   chat_name |-> new_chat_name,
                   messages |-> m.value,
                   chat_config |-> c.value,
                   current_model |-> IF Get(c.value, "model") # ""
                                     THEN c.value["model"] ELSE current_model,
                   current_system_prompt |-> system_prompt_of(c.value)]
    ELSE [exc |-> "", chat_name |-> "", messages |-> <<>>, chat_config |-> <<>>,
          current_model |-> DEFAULT_MODEL, current_system_prompt |-> ""]

\* main.load_chat: the session after loading new_chat_name from the files fs
load_chat(fs, new_chat_name) ==
    IF new_chat_name # ""
    THEN LET c == load_chat_config(fs, new_chat_name)
             m == load_conversation(fs, new_chat_name)
         IN  IF c.exc # "" \/ m.exc # "" THEN [exc |-> "raised"]
             ELSE [exc |-> "",
                   chat_name |-> new_chat_name,
                   messages |-> m.value,
                   chat_config |-> c.value,
                   current_model |-> IF Get(c.value, "model") # ""
                                     THEN c.value["model"] ELSE DEFAULT_MODEL,
                   current_system_prompt |-> system_prompt_of(c.value)]
    ELSE [exc |-> "", chat_name |-> "", messages |-> <<>>, chat_config |-> <<>>,
          current_model |-> DEFAULT_MODEL, current_system_prompt |-> ""]

\* the message without its 'model' and 'timestamp' fields
strip_message(msg) == [k \in DOMAIN msg \ {"model", "timestamp"} |-> msg[k]]

\* the window taken from the front of the transcript: messages[:10]
api_window_head(msgs) == IF Len(msgs) > WindowSize THEN SubSeq(msgs, 1, WindowSize) ELSE msgs

\* the window of the transcript sent with a request:
\* msgs[-10:] if len(msgs) > 10 else msgs.copy()
api_window(msgs) == IF Len(msgs) > WindowSize THEN LastN(msgs, WindowSize) ELSE msgs

\* the payload with the system prompt put in front of the transcript before the
\* window is taken
build_api_messages_prompt_first(msgs, system_prompt) ==
    LET stripped == [i \in 1..Len(msgs) |-> strip_message(msgs[i])]
    IN  IF system_prompt = "" THEN api_window(stripped)
        ELSE api_window(<< [role |-> "system", content |-> system_prompt] >> \o stripped)

\* the request payload main builds from the transcript and the system prompt
build_api_messages(msgs, system_prompt) ==
    LET w == api_window(msgs)
        stripped == [i \in 1..Len(w) |-> strip_message(w[i])]
    IN  IF system_prompt = "" THEN stripped
        ELSE IF stripped = <<>> \/ Get(stripped[1], "role") # "system"
        THEN << [role |-> "system", content |-> system_prompt] >> \o stripped
        ELSE [stripped EXCEPT ![1] = Put(@, "content", system_prompt)]

\* the transcript left as it is: the pop left out
messages_pop_skipped(msgs) == msgs

\* msgs.pop()
messages_pop(msgs) == SubSeq(msgs, 1, Len(msgs) - 1)

\* " ".join(words)
RECURSIVE join_words(_)
join_words(words) ==
    IF Len(words) = 0 THEN ""
    ELSE IF Len(words) = 1 THEN words[1]
    ELSE words[1] \o " " \o join_words(Tail(words))

\* str.lower() on the words the inputs use
Lower(w) ==
    CASE w = "QUIT" -> "quit"
      [] w = "EXIT" -> "exit"
      [] w = "Quit" -> "quit"
      [] OTHER -> w

\* the commands main.handle_command knows
KnownCommands ==
    {"quit", "help", "change-model", "list-chats", "switch-chat", "system-prompt",
     "system-prompt-list"}

\* what handle_command returns and does: whether to exit, the exception that
\* escapes it, the session and the files afterwards
CommandResult(fs, sess) == [should_exit |-> FALSE, exc |-> "", sess |-> sess, files |-> fs]

\* main.handle_command after parsing: the branch of `command` with args_list
command_branch(fs, sess, command, args_list) ==
    LET same == CommandResult(fs, sess)
    IN  IF command = "quit" THEN [same EXCEPT !.should_exit = TRUE]
        ELSE IF command = "help" THEN same
        ELSE IF command = "change-model" THEN
            IF args_list = <<>> THEN same
            ELSE LET new_model == args_list[1]
                     cfg == Put(sess.chat_config, "model", new_model)
                 IN  IF sess.chat_name # ""
                     THEN [same EXCEPT
                             !.sess = [sess EXCEPT !.current_model = new_model,
                                                   !.chat_config = cfg],
                             !.files = save_chat_config(fs, sess.chat_name, cfg)]
                     ELSE [same EXCEPT !.sess = [sess EXCEPT !.current_model = new_model]]
        ELSE IF command = "list-chats" THEN same
        ELSE IF command = "switch-chat" THEN
            IF args_list = <<>> THEN same
            ELSE LET l == load_chat(fs, args_list[1])
                 IN  IF l.exc # "" THEN [same EXCEPT !.exc = l.exc]
                     ELSE [same EXCEPT !.sess =
                             [chat_name |-> l.chat_name, messages |-> l.messages,
                              chat_config |-> l.chat_config,
                              current_model |-> l.current_model,
                              current_system_prompt |-> l.current_system_prompt]]
        ELSE IF command = "system-prompt" THEN
            IF args_list = <<>> THEN same
            ELSE LET prompt_name == args_list[1]
                     preset == prompt_name \in DOMAIN SYSTEM_PROMPTS
                     prompt == IF preset THEN SYSTEM_PROMPTS[prompt_name]
                               ELSE join_words(args_list)
                     cfg == Put(sess.chat_config, "system_prompt",
                                IF preset THEN prompt_name ELSE prompt)
                 IN  IF sess.chat_name # ""
                     THEN [same EXCEPT
                             !.sess = [sess EXCEPT !.current_system_prompt = prompt,
                                                   !.chat_config = cfg],
                             !.files = save_chat_config(fs, sess.chat_name, cfg)]
                     ELSE [same EXCEPT
                             !.sess = [sess EXCEPT !.current_system_prompt = prompt]]
        ELSE IF command = "system-prompt-list" THEN same
        ELSE same

\* handle_command that compares the command word as typed, without lower()
handle_command_case_sensitive(fs, sess, words) ==
    IF words = <<>> THEN CommandResult(fs, sess)
    ELSE command_branch(fs, sess, words[1], Tail(words))

\* handle_command that takes an empty or unknown command for /quit
handle_command_unknown_quits(fs, sess, words) ==
    IF words = <<>> \/ Lower(words[1]) \notin KnownCommands
    THEN [CommandResult(fs, sess) EXCEPT !.should_exit = TRUE]
    ELSE command_branch(fs, sess, Lower(words[1]), Tail(words))

\* main.handle_command on the words of the line after '/' (line[1:].strip().split()):
\* an empty command is reported, else command = parts[0].lower(), args_list = parts[1:]
handle_command(fs, sess, words) ==
    IF words = <<>> THEN CommandResult(fs, sess)
    ELSE command_branch(fs, sess, Lower(words[1]), Tail(words))

---------------------------------------------------------------------------
(* Inputs of the store functions *)

\* a program-written transcript of n msgs, every message distinct
Hist(n) ==
    [i \in 1..n |-> [role |-> IF i % 2 = 1 THEN "user" ELSE "assistant",
                     content |-> "h" \o ToString(i)]]

\* message lists given to save_conversation
MessageLists ==
    { <<>>,
      <<[role |-> "user", content |-> "Hello"],
        [role |-> "assistant", content |-> "Hi there!", model |-> "gpt-5.1"]>>,
      <<[role |-> "user"], [content |-> "test"]>>,
      Hist(12) }

\* contents a conversation file may be found with
ConversationDocs ==
    { NotUtf8, NotJson, JStr("invalid string"), JNum(1),
      JObj(<<<<"role", JStr("user")>>>>),
      JList(<<>>),
      json_dump_messages(Hist(3)) }

\* contents a statistics file may be found with
StatisticsDocs ==
    { NotUtf8, NotJson, JList(<<>>),
      JObj(<<<<"total_input_tokens", JNum(100)>>>>) }

\* (input_tokens, output_tokens, total_tokens, cost, elapsed_time)
StatisticsArgs ==
    { <<100, 200, 300, Some(5), 10>>,
      <<50, 75, 125, Some(2), 5>>,
      <<1, 2, 3, None, 1>>,
      <<0, 0, 0, None, 0>> }

\* the files in which, for each chat, path(chat) holds pick[chat] when given
FilesOf(pick, path(_)) ==
    LET present == {c \in DOMAIN pick : pick[c] # None}
    IN  [p \in {path(c) : c \in present} |->
            pick[CHOOSE c \in present : path(c) = p][1]]

conversation_file(c) == get_conversation_path(c).path
stats_file(c) == get_stats_path(c).path

Optional(S) == {None} \cup {Some(x) : x \in S}

ZeroAcc == [in |-> 0, out |-> 0, tot |-> 0, cost |-> 0, time |-> 0, n |-> 0]

---------------------------------------------------------------------------
(* The store functions called directly, on files found in any condition *)

StoreIdle ==
    /\ ret = [op |-> "none"]
    /\ lastSaved = [c \in Chats |-> None]
    /\ acc = [c \in Chats |-> ZeroAcc]
    /\ ops = 0

CliIdle ==
    /\ pc = "off"
    /\ chat_name = ""
    /\ messages = <<>>
    /\ chat_config = <<>>
    /\ current_model = DEFAULT_MODEL
    /\ current_system_prompt = ""
    /\ api_messages = <<>>
    /\ inputs = 0
    /\ outcome = "none"
    /\ user_input = [slash |-> FALSE, text |-> ""]
    /\ atPrompt = [messages |-> <<>>, files |-> files, session |-> <<>>,
                   api_messages |-> <<>>]
    /\ retry = None
    /\ succeeded = [c \in Chats |-> 0]

UiIdle ==
    /\ ui_pc = "off"
    /\ ui_chats = {}
    /\ ui_selected = ""
    /\ ui_last = [op |-> "none"]
    /\ ui_deleted = {}
    /\ workers = <<>>

InitConversations ==
    /\ \E pick \in [Chats -> Optional(ConversationDocs)] :
          files = FilesOf(pick, conversation_file)
    /\ dirs = IF files = <<>> THEN {} ELSE {CONVERSATIONS_DIR}
    /\ fresh = [c \in Chats |-> TRUE]
    /\ StoreIdle
    /\ CliIdle
    /\ UiIdle

InitStatistics ==
    /\ \E pick \in [Chats -> Optional(StatisticsDocs)] :
          /\ files = FilesOf(pick, stats_file)
          /\ fresh = [c \in Chats |-> pick[c] = None]
    /\ dirs = IF files = <<>> THEN {} ELSE get_stats_path("a").made
    /\ StoreIdle
    /\ CliIdle
    /\ UiIdle

CallSaveConversation(c, m) ==
    /\ ops < MaxOps
    /\ files' = save_conversation(files, c, m)
    /\ dirs' = dirs \cup get_conversation_path(c).made
    /\ lastSaved' = [lastSaved EXCEPT ![c] = Some(m)]
    /\ ret' = [op |-> "save_conversation", chat |-> c]
    /\ ops' = ops + 1
    /\ UNCHANGED <<fresh, acc, cliVars, uiVars>>

CallLoadConversation(c) ==
    /\ ops < MaxOps
    /\ ret' = [op |-> "load_conversation", chat |-> c,
               result |-> load_conversation(files, c)]
    /\ dirs' = dirs \cup get_conversation_path(c).made
    /\ ops' = ops + 1
    /\ UNCHANGED <<files, lastSaved, fresh, acc, cliVars, uiVars>>

CallUpdateStatistics(c, a) ==
    /\ ops < MaxOps
    /\ LET r == update_statistics(files, c, a[1], a[2], a[3], a[4], a[5])
       IN  /\ files' = r.files
           /\ ret' = [op |-> "update_statistics", chat |-> c, exc |-> r.exc]
    /\ dirs' = dirs \cup update_statistics_made(c)
    /\ acc' = IF c \in Chats
              THEN [acc EXCEPT ![c] =
                      [in |-> @.in + a[1], out |-> @.out + a[2], tot |-> @.tot + a[3],
                       cost |-> @.cost + (IF a[4] = None THEN 0 ELSE a[4][1]),
                       time |-> @.time + a[5], n |-> @.n + 1]]
              ELSE acc
    /\ ops' = ops + 1
    /\ UNCHANGED <<lastSaved, fresh, cliVars, uiVars>>

CallLoadStatistics(c) ==
    /\ ops < MaxOps
    /\ ret' = [op |-> "load_statistics", chat |-> c,
               result |-> load_statistics(files, c)]
    /\ dirs' = dirs \cup get_stats_path(c).made
    /\ ops' = ops + 1
    /\ UNCHANGED <<files, lastSaved, fresh, acc, cliVars, uiVars>>

NextConversations ==
    \/ \E c \in Chats, m \in MessageLists : CallSaveConversation(c, m)
    \/ \E c \in Chats : CallLoadConversation(c)

NextStatistics ==
    \/ \E c \in Chats \cup {""}, a \in StatisticsArgs : CallUpdateStatistics(c, a)
    \/ \E c \in Chats : CallLoadStatistics(c)

---------------------------------------------------------------------------
(* load_chat_config and save_chat_config called directly *)

chat_config_file(c) == get_chat_config_path(c).path

\* contents a chat config file may be found with
ChatConfigDocs ==
    { NotUtf8, NotJson, JList(<<JStr("not"), JStr("a"), JStr("dict")>>), JStr("m2"),
      JObj(<< <<"system_prompt", JStr("python-expert")>> >>) }

\* configs given to save_chat_config
ChatConfigs ==
    { <<>>,
      [model |-> "m2"],
      [system_prompt |-> "Always respond in Polish language"],
      [model |-> "m2", system_prompt |-> "default"] }

InitChatConfig ==
    /\ \E pick \in [Chats -> Optional(ChatConfigDocs)] :
          files = FilesOf(pick, chat_config_file)
    /\ dirs = IF files = <<>> THEN {} ELSE {CONVERSATIONS_DIR}
    /\ fresh = [c \in Chats |-> TRUE]
    /\ StoreIdle
    /\ CliIdle
    /\ UiIdle

CallSaveChatConfig(c, config) ==
    /\ ops < MaxOps
    /\ files' = save_chat_config(files, c, config)
    /\ dirs' = dirs \cup get_chat_config_path(c).made
    /\ lastSaved' = [lastSaved EXCEPT ![c] = Some(config)]
    /\ ret' = [op |-> "save_chat_config", chat |-> c]
    /\ ops' = ops + 1
    /\ UNCHANGED <<fresh, acc, cliVars, uiVars>>

CallLoadChatConfig(c) ==
    /\ ops < MaxOps
    /\ ret' = [op |-> "load_chat_config", chat |-> c,
               result |-> load_chat_config(files, c)]
    /\ dirs' = dirs \cup get_chat_config_path(c).made
    /\ ops' = ops + 1
    /\ UNCHANGED <<files, lastSaved, fresh, acc, cliVars, uiVars>>

NextChatConfig ==
    \/ \E c \in Chats, config \in ChatConfigs : CallSaveChatConfig(c, config)
    \/ \E c \in Chats : CallLoadChatConfig(c)

---------------------------------------------------------------------------
(* load_config called on a config file found in any condition *)

\* a JSON object with the members of `members` that are given (not None)
JObjOf(members) ==
    JObj(LET given == SelectSeq(members, LAMBDA m : m[2] # None)
         IN  [i \in 1..Len(given) |-> <<given[i][1], given[i][2][1]>>])

\* values the config file may hold under its keys: absent, well typed, wrong typed
ConfigModelValues == {None, Some(JStr("gpt-4")), Some(JNum(4))}
ConfigNameValues == {None, Some(JStr("Ann"))}
ConfigPricingValues ==
    { None,
      Some(JObj(<< <<"gpt-4", json_dump_nums([input |-> 3000, output |-> 6000],
                                              <<"input", "output">>)>> >>)),
      Some(JObj(<< <<"gpt-5.1", json_dump_nums([input |-> 100, output |-> 200],
                                                <<"input", "output">>)>> >>)),
      Some(JList(<<>>)) }
ConfigPromptValues ==
    { None,
      Some(JObj(<< <<"pirate", JStr("Talk like a pirate.")>> >>)),
      Some(JStr("default")) }

\* contents the config file may be found with
ConfigDocs ==
    { NotUtf8, NotJson, JList(<<>>), JStr("gpt-4") }
    \cup { JObjOf(<< <<"default_model", m>>, <<"user_name", u>>,
                     <<"pricing", p>>, <<"system_prompts", sp>> >>) :
             m \in ConfigModelValues, u \in ConfigNameValues,
             p \in ConfigPricingValues, sp \in ConfigPromptValues }

InitConfig ==
    /\ \E doc \in Optional(ConfigDocs) :
          files = IF doc = None THEN <<>>
                  ELSE write_file(<<>>, CONFIG_PATH, doc[1])
    /\ dirs = {}
    /\ fresh = [c \in Chats |-> TRUE]
    /\ StoreIdle
    /\ CliIdle
    /\ UiIdle

CallEnsureConfigFile ==
    /\ ops < MaxOps
    /\ files' = ensure_config_file(files)
    /\ ret' = [op |-> "ensure_config_file", before |-> files]
    /\ ops' = ops + 1
    /\ UNCHANGED <<dirs, lastSaved, fresh, acc, cliVars, uiVars>>

CallLoadConfig ==
    /\ ops < MaxOps
    /\ LET r == load_config(files)
       IN  /\ files' = r.files
           /\ ret' = [op |-> "load_config", before |-> files,
                      result |-> [k \in DOMAIN r \ {"files"} |-> r[k]]]
    /\ ops' = ops + 1
    /\ UNCHANGED <<dirs, lastSaved, fresh, acc, cliVars, uiVars>>

NextConfig ==
    \/ CallEnsureConfigFile
    \/ CallLoadConfig

---------------------------------------------------------------------------
(* calculate_cost called directly, on the pricing table read from the config *)

\* models asked for: the built-in one, one the config may price, one unpriced
CostModels == {"gpt-5.1", "gpt-4", "unknown-model"}

\* factors by which token counts are scaled
CostFactors == {2, 3}

TokenCounts == 0..MaxTokens

\* the "pricing" member the config file may hold: none, an entry with both
\* prices, an entry without the output price
CostPricingValues ==
    { None,
      Some(JObj(<< <<"gpt-4", json_dump_nums([input |-> 3000, output |-> 6000],
                                              <<"input", "output">>)>> >>)),
      Some(JObj(<< <<"gpt-4", json_dump_nums([input |-> 3000],
                                              <<"input", "output">>)>> >>)) }

\* x + y and k * x for the results of two calls, None unless both are numbers
cost_add(x, y) ==
    IF x.exc # "" \/ y.exc # "" THEN None
    ELSE IF x.value = None \/ y.value = None THEN None
    ELSE Some(float_add(x.value[1], y.value[1]))

cost_scale(k, x) ==
    IF x.exc # "" THEN None
    ELSE IF x.value = None THEN None
    ELSE Some(float_mul(true_div(k, 1), x.value[1]))

\* the module imported (MODEL_PRICING = CONFIG.get("pricing") of the loaded
\* config) and the arguments of the calls drawn
InitCost ==
    /\ \E p \in CostPricingValues, model \in CostModels,
          i1 \in TokenCounts, o1 \in TokenCounts,
          i2 \in TokenCounts, o2 \in TokenCounts, k \in CostFactors :
          LET loaded == load_config(write_file(<<>>, CONFIG_PATH,
                                               JObjOf(<< <<"pricing", p>> >>)))
          IN  /\ files = loaded.files
              /\ ret = [op |-> "args", pricing |-> loaded.value.pricing,
                        model |-> model, i1 |-> i1, o1 |-> o1,
                        i2 |-> i2, o2 |-> o2, k |-> k]
    /\ dirs = {}
    /\ fresh = [c \in Chats |-> TRUE]
    /\ lastSaved = [c \in Chats |-> None]
    /\ acc = [c \in Chats |-> ZeroAcc]
    /\ ops = 0
    /\ CliIdle
    /\ UiIdle

\* calculate_cost(model, i1, o1), calculate_cost(model, i2, o2), their sum,
\* and calculate_cost on the summed and on the scaled token counts
CallCalculateCost ==
    /\ ret.op = "args"
    /\ LET c1 == calculate_cost_float(ret.pricing, ret.model, ret.i1, ret.o1)
           c2 == calculate_cost_float(ret.pricing, ret.model, ret.i2, ret.o2)
       IN  ret' = [op |-> "calculate_cost", pricing |-> ret.pricing,
                   model |-> ret.model,
                   i1 |-> ret.i1, o1 |-> ret.o1, i2 |-> ret.i2, o2 |-> ret.o2,
                   k |-> ret.k,
                   c1 |-> c1,
                   c2 |-> c2,
                   sum |-> cost_add(c1, c2),
                   of_sum |-> calculate_cost_float(ret.pricing, ret.model,
                                                   ret.i1 + ret.i2, ret.o1 + ret.o2),
                   scaled |-> cost_scale(ret.k, c1),
                   of_scaled |-> calculate_cost_float(ret.pricing, ret.model,
                                                      ret.k * ret.i1, ret.k * ret.o1)]
    /\ UNCHANGED <<files, dirs, lastSaved, fresh, acc, ops, cliVars, uiVars>>

NextCost == CallCalculateCost

---------------------------------------------------------------------------
(* The CLI session, on files the program wrote earlier *)

\* lengths of the transcript chat "a" starts with (chat "b" starts without files)
HistoryLengths == {0, 9, 10}

\* the statistics after k exchanges of (2, 3, 5) tokens
StatsAfter(k) ==
    [total_input_tokens |-> 2 * k, total_output_tokens |-> 3 * k,
     total_tokens |-> 5 * k, total_cost |-> 3500 * k, total_time |-> k,
     request_count |-> k]

\* command-line arguments: --chat-name and --model ("" when not given)
ChatNameArgs == {"", "a"}
ModelArgs == {"", "m2"}

\* lines typed at the prompt
Texts == {"x", "y"}
ExitTexts == {"exit", "QUIT"}
Lines == Texts \cup ExitTexts
CommandLines ==
    { <<>>, <<"quit">>, <<"QUIT">>, <<"help">>, <<"bogus">>,
      <<"change-model", "m2">>,
      <<"switch-chat", "a">>, <<"switch-chat", "b">>,
      <<"system-prompt", "default">>, <<"system-prompt", "Be", "brief">>,
      <<"system-prompt", "code", "review">> }

\* what the API returns: the reply text and the usage it reports
Replies == {"r", ""}
Usages == { [input |-> 0, output |-> 0, total |-> 0],
            [input |-> 2, output |-> 3, total |-> 5] }
ElapsedTimes == {1}

InitCLI ==
    /\ \E n \in HistoryLengths :
          /\ files = IF n = 0 THEN <<>>
                     ELSE save_statistics(save_conversation(<<>>, "a", Hist(n)),
                                          "a", StatsAfter(n \div 2))
          /\ dirs = IF n = 0 THEN {} ELSE get_stats_path("a").made
          /\ succeeded = [c \in Chats |-> IF c = "a" THEN n \div 2 ELSE 0]
          /\ atPrompt = [messages |-> <<>>, files |-> files, session |-> <<>>,
                         api_messages |-> <<>>]
    /\ fresh = [c \in Chats |-> stats_file(c) \notin DOMAIN files]
    /\ StoreIdle
    /\ pc = "start"
    /\ chat_name = ""
    /\ messages = <<>>
    /\ chat_config = <<>>
    /\ current_model = DEFAULT_MODEL
    /\ current_system_prompt = ""
    /\ api_messages = <<>>
    /\ inputs = 0
    /\ outcome = "none"
    /\ user_input = [slash |-> FALSE, text |-> ""]
    /\ retry = None
    /\ UiIdle

Session ==
    [chat_name |-> chat_name, messages |-> messages, chat_config |-> chat_config,
     current_model |-> current_model, current_system_prompt |-> current_system_prompt]

SetSession(sess) ==
    /\ chat_name' = sess.chat_name
    /\ messages' = sess.messages
    /\ chat_config' = sess.chat_config
    /\ current_model' = sess.current_model
    /\ current_system_prompt' = sess.current_system_prompt

\* main up to the first prompt: the session and the files after start-up
cli_startup(fs, name_arg, model_arg) ==
    IF name_arg = ""
    THEN [exc |-> "", files |-> fs,
          sess |-> [chat_name |-> "", messages |-> <<>>, chat_config |-> <<>>,
                    current_model |-> IF model_arg # "" THEN model_arg ELSE DEFAULT_MODEL,
                    current_system_prompt |-> ""]]
    ELSE LET c0 == load_chat_config(fs, name_arg)
             fs1 == IF model_arg # "" /\ c0.exc = ""
                    THEN save_chat_config(fs, name_arg, Put(c0.value, "model", model_arg))
                    ELSE fs
             l == load_chat(fs1, name_arg)
         IN  IF c0.exc # "" \/ l.exc # "" THEN [exc |-> "raised", files |-> fs1]
             ELSE LET cfg == IF model_arg # "" THEN Put(l.chat_config, "model", model_arg)
                             ELSE l.chat_config
                  IN  [exc |-> "",
                       files |-> IF model_arg # "" THEN save_chat_config(fs1, name_arg, cfg)
                                 ELSE fs1,
                       sess |-> [chat_name |-> name_arg, messages |-> l.messages,
                                 chat_config |-> cfg,
                                 current_model |-> IF model_arg # "" THEN model_arg
                                                   ELSE l.current_model,
                                 current_system_prompt |-> l.current_system_prompt]]

CliStart(name_arg, model_arg) ==
    /\ pc = "start"
    /\ LET r == cli_startup(files, name_arg, model_arg)
       IN  /\ files' = r.files
           /\ IF r.exc # ""
              THEN /\ pc' = "crashed"
                   /\ UNCHANGED <<chat_name, messages, chat_config, current_model,
                                  current_system_prompt>>
              ELSE /\ pc' = "prompt"
                   /\ SetSession(r.sess)
    /\ dirs' = IF name_arg # "" THEN dirs \cup {CONVERSATIONS_DIR} ELSE dirs
    /\ UNCHANGED <<api_messages, inputs, outcome, user_input, atPrompt, retry,
                   succeeded, storeVars, uiVars>>

\* a line starting with '/': handle_command
CliCommand(words) ==
    /\ pc = "prompt"
    /\ inputs < MaxInputs
    /\ LET r == handle_command(files, Session, words)
       IN  /\ files' = r.files
           /\ IF r.exc # ""
              THEN /\ pc' = "crashed"
                   /\ UNCHANGED <<chat_name, messages, chat_config, current_model,
                                  current_system_prompt>>
              ELSE /\ pc' = IF r.should_exit THEN "exited" ELSE "prompt"
                   /\ SetSession(r.sess)
    /\ dirs' = IF words # <<>> /\ Lower(words[1]) \in {"change-model", "switch-chat",
                                                       "system-prompt", "list-chats"}
                  /\ (chat_name # "" \/ Lower(words[1]) \in {"switch-chat", "list-chats"})
                  /\ (Len(words) > 1 \/ Lower(words[1]) = "list-chats")
               THEN dirs \cup {CONVERSATIONS_DIR} ELSE dirs
    /\ inputs' = inputs + 1
    /\ user_input' = [slash |-> TRUE, words |-> words]
    /\ outcome' = "command"
    /\ atPrompt' = [messages |-> messages, files |-> files, session |-> Session,
                    api_messages |-> api_messages]
    /\ retry' = None
    /\ UNCHANGED <<api_messages, succeeded, storeVars, uiVars>>

\* 'exit' or 'quit' in any letter case
CliExit(text) ==
    /\ pc = "prompt"
    /\ inputs < MaxInputs
    /\ Lower(text) \in {"exit", "quit"}
    /\ pc' = "exited"
    /\ inputs' = inputs + 1
    /\ user_input' = [slash |-> FALSE, text |-> text]
    /\ outcome' = "exit"
    /\ atPrompt' = [messages |-> messages, files |-> files, session |-> Session,
                    api_messages |-> api_messages]
    /\ retry' = None
    /\ UNCHANGED <<files, dirs, chat_name, messages, chat_config, current_model,
                   current_system_prompt, api_messages, succeeded, storeVars, uiVars>>

\* any other line: append it, build the payload and start the streaming request
CliSend(text) ==
    /\ pc = "prompt"
    /\ inputs < MaxInputs
    /\ Lower(text) \notin {"exit", "quit"}
    /\ messages' = Append(messages, [role |-> "user", content |-> text])
    /\ api_messages' = build_api_messages(messages', current_system_prompt)
    /\ pc' = "stream"
    /\ inputs' = inputs + 1
    /\ user_input' = [slash |-> FALSE, text |-> text]
    /\ outcome' = "pending"
    /\ atPrompt' = [messages |-> messages, files |-> files, session |-> Session,
                    api_messages |-> api_messages]
    /\ retry' = IF retry # None /\ retry[1].stage = "failed" /\ retry[1].text = text
                THEN Some([retry[1] EXCEPT !.stage = "again"])
                ELSE None
    /\ UNCHANGED <<files, dirs, chat_name, chat_config, current_model,
                   current_system_prompt, succeeded, storeVars, uiVars>>

\* the files after a completed exchange: save_conversation, then update_statistics
\* with cost = calculate_cost(...) if total_tokens > 0 else None
cli_persist(fs, name, msgs, model, usage, elapsed_time) ==
    IF name = "" THEN [exc |-> "", files |-> fs]
    ELSE update_statistics(save_conversation(fs, name, msgs), name,
                           usage.input, usage.output, usage.total,
                           IF usage.total > 0
                           THEN calculate_cost(model, usage.input, usage.output)
                           ELSE None,
                           elapsed_time)

\* the response arrived (pc says from which request): append it and persist
CliResponse(from, full_response, usage, elapsed_time) ==
    /\ pc = from
    /\ messages' = Append(messages, [role |-> "assistant", content |-> full_response])
    /\ LET r == cli_persist(files, chat_name, messages', current_model, usage,
                            elapsed_time)
       IN  /\ files' = r.files
           /\ pc' = IF r.exc # "" THEN "crashed" ELSE "prompt"
    /\ dirs' = IF chat_name # "" THEN dirs \cup get_stats_path(chat_name).made ELSE dirs
    /\ outcome' = "ok"
    /\ retry' = IF retry # None /\ retry[1].stage = "again"
                THEN Some([retry[1] EXCEPT !.stage = "done"])
                ELSE None
    /\ succeeded' = IF chat_name \in Chats
                    THEN [succeeded EXCEPT ![chat_name] = @ + 1] ELSE succeeded
    /\ UNCHANGED <<chat_name, chat_config, current_model, current_system_prompt,
                   api_messages, inputs, user_input, atPrompt, storeVars, uiVars>>

\* the request raised APIError: drop the user message and prompt again
CliApiError(from) ==
    /\ pc = from
    /\ messages' = messages_pop(messages)
    /\ pc' = "prompt"
    /\ outcome' = "api_error"
    /\ retry' = Some([stage |-> "failed", text |-> user_input.text,
                      base |-> messages', from |-> from])
    /\ UNCHANGED <<files, dirs, chat_name, chat_config, current_model,
                   current_system_prompt, api_messages, inputs, user_input, atPrompt,
                   succeeded, storeVars, uiVars>>

CliStreamResponse ==
    \E r \in Replies, u \in Usages, t \in ElapsedTimes : CliResponse("stream", r, u, t)

CliStreamApiError == CliApiError("stream")

\* the streaming request raised TypeError or AttributeError: ask again without stream
CliStreamUnsupported ==
    /\ pc = "stream"
    /\ pc' = "fallback"
    /\ UNCHANGED <<files, dirs, chat_name, messages, chat_config, current_model,
                   current_system_prompt, api_messages, inputs, outcome, user_input,
                   atPrompt, retry, succeeded, storeVars, uiVars>>

CliFallbackResponse ==
    \E r \in Replies, u \in Usages, t \in ElapsedTimes : CliResponse("fallback", r, u, t)

CliFallbackApiError == CliApiError("fallback")

NextCLI ==
    \/ \E n \in ChatNameArgs, m \in ModelArgs : CliStart(n, m)
    \/ \E w \in CommandLines : CliCommand(w)
    \/ \E t \in Lines : CliExit(t)
    \/ \E t \in Lines : CliSend(t)
    \/ CliStreamResponse
    \/ CliStreamApiError
    \/ CliStreamUnsupported
    \/ CliFallbackResponse
    \/ CliFallbackApiError

---------------------------------------------------------------------------
(* The temporary conversation: a session started without a chat name *)

\* the commands typed in it (none that opens a named chat)
TemporaryCommandLines ==
    { <<>>, <<"help">>, <<"bogus">>, <<"quit">>,
      <<"change-model", "m2">>,
      <<"system-prompt", "default">>, <<"system-prompt", "Be", "brief">> }

\* the session, and update_statistics called with an empty chat name
NextTemporary ==
    \/ \E m \in ModelArgs : CliStart("", m)
    \/ \E w \in TemporaryCommandLines : CliCommand(w)
    \/ \E t \in Lines : CliExit(t)
    \/ \E t \in Lines : CliSend(t)
    \/ CliStreamResponse
    \/ CliStreamApiError
    \/ CliStreamUnsupported
    \/ CliFallbackResponse
    \/ CliFallbackApiError
    \/ \E a \in StatisticsArgs : CallUpdateStatistics("", a)

---------------------------------------------------------------------------
(* ui.utils.get_available_chats called directly *)

\* names the entries of the conversations directory may have
ListingEntries ==
    <<"a.json", "a.config.json", "b.json", "d.json", "notes.txt", "statistics">>

\* what may precede a suffix in an entry name
EntryStems == {"a", "b", "d", "a.config"}

\* entry.endswith(suffix)
endswith(entry, suffix) == \E stem \in EntryStems : entry = stem \o suffix

\* entry[:-5] of an entry that ends with ".json"
entry_stem(entry) == CHOOSE stem \in EntryStems : stem \o ".json" = entry

\* os.listdir(CONVERSATIONS_DIR) as a set: the files and directories in it
listdir(fs, ds) ==
    {e \in Range(ListingEntries) :
        join(CONVERSATIONS_DIR, e) \in DOMAIN fs \/ join(CONVERSATIONS_DIR, e) \in ds}

\* the entry filter that lists the config files too
is_chat_entry_config_listed(ds, entry) ==
    /\ join(CONVERSATIONS_DIR, entry) \notin ds
    /\ endswith(entry, ".json")

\* the entry filter of get_available_chats: not a directory, not a config
\* file, a name that ends with ".json"
is_chat_entry(ds, entry) ==
    /\ join(CONVERSATIONS_DIR, entry) \notin ds
    /\ ~endswith(entry, ".config.json")
    /\ endswith(entry, ".json")

\* sorted(metadata, key=last_used, reverse=True): descending, entries with
\* equal keys in the order they had
RECURSIVE sorted_by_last_used(_)
sorted_by_last_used(metadata) ==
    IF metadata = <<>> THEN <<>>
    ELSE LET first == CHOOSE i \in DOMAIN metadata :
                         /\ \A j \in DOMAIN metadata :
                               metadata[j].last_used <= metadata[i].last_used
                         /\ \A j \in 1..(i - 1) :
                               metadata[j].last_used < metadata[i].last_used
             rest == [j \in 1..(Len(metadata) - 1) |->
                         IF j < first THEN metadata[j] ELSE metadata[j + 1]]
         IN  <<metadata[first]>> \o sorted_by_last_used(rest)

\* get_available_chats on the files fs and directories ds, with os.listdir
\* returning the entries in `order` and os.path.getmtime returning mtime[path]
get_available_chats(fs, ds, order, mtime) ==
    IF CONVERSATIONS_DIR \notin ds THEN [exc |-> "", value |-> <<>>]
    ELSE LET entries == SelectSeq(order, LAMBDA e : is_chat_entry(ds, e))
             chats == [i \in DOMAIN entries |-> entry_stem(entries[i])]
             raised == {i \in DOMAIN chats :
                           \/ load_chat_config(fs, chats[i]).exc # ""
                           \/ load_conversation(fs, chats[i]).exc # ""}
             meta(chat) ==
                 LET config == load_chat_config(fs, chat).value
                     conv_path == get_conversation_path(chat).path
                 IN  [name |-> chat,
                      model |-> IF "model" \in DOMAIN config THEN config["model"]
                                ELSE DEFAULT_MODEL,
                      message_count |-> Len(load_conversation(fs, chat).value),
                      last_used |-> IF "last_used" \in DOMAIN config
                                    THEN config["last_used"]
                                    ELSE IF conv_path \in DOMAIN fs THEN mtime[conv_path]
                                    ELSE 0]
         IN  IF raised # {} THEN [exc |-> "raised"]
             ELSE [exc |-> "",
                   value |-> sorted_by_last_used([i \in DOMAIN chats |-> meta(chats[i])])]

\* the config file of chat "a": none, with a model, with a model and last_used
ListingConfigs ==
    { None,
      Some(json_dump_strs([model |-> "m2"], ConfigKeys)),
      Some(JObj(<< <<"model", JStr("m2")>>, <<"last_used", JNum(3)>> >>)) }

\* modification times of the conversation files
ModificationTimes == {1, 2}

Reverse(s) == [i \in DOMAIN s |-> s[Len(s) + 1 - i]]

\* the conversations directory missing, empty, or holding conversations written
\* by save_conversation, a config file, another file and sub-directories; the
\* entries are listed in one order or in the opposite one
InitListing ==
    /\ \E na \in {None, Some(0), Some(2)}, nb \in {None, Some(1)},
          cfg \in ListingConfigs, notes \in BOOLEAN, exists \in BOOLEAN,
          sub \in SUBSET {"statistics", "d.json"},
          ma \in ModificationTimes, mb \in ModificationTimes, rev \in BOOLEAN :
          LET f1 == IF na = None THEN <<>> ELSE save_conversation(<<>>, "a", Hist(na[1]))
              f2 == IF nb = None THEN f1 ELSE save_conversation(f1, "b", Hist(nb[1]))
              f3 == IF cfg = None THEN f2
                    ELSE write_file(f2, get_chat_config_path("a").path, cfg[1])
              f4 == IF notes THEN write_file(f3, join(CONVERSATIONS_DIR, "notes.txt"), NotJson)
                    ELSE f3
              ds == IF f4 = <<>> /\ sub = {} /\ ~exists THEN {}
                    ELSE {CONVERSATIONS_DIR} \cup {join(CONVERSATIONS_DIR, d) : d \in sub}
              listed == SelectSeq(ListingEntries, LAMBDA e : e \in listdir(f4, ds))
          IN  /\ files = f4
              /\ dirs = ds
              /\ ret = [op |-> "args",
                        order |-> IF rev THEN Reverse(listed) ELSE listed,
                        mtime |-> [q \in DOMAIN f4 |->
                                      IF q = conversation_file("a") THEN ma ELSE mb]]
    /\ fresh = [c \in Chats |-> TRUE]
    /\ lastSaved = [c \in Chats |-> None]
    /\ acc = [c \in Chats |-> ZeroAcc]
    /\ ops = 0
    /\ CliIdle
    /\ UiIdle

CallGetAvailableChats ==
    /\ ret.op = "args"
    /\ ret' = [op |-> "get_available_chats", order |-> ret.order, mtime |-> ret.mtime,
               result |-> get_available_chats(files, dirs, ret.order, ret.mtime)]
    /\ UNCHANGED <<files, dirs, lastSaved, fresh, acc, ops, cliVars, uiVars>>

NextListing == CallGetAvailableChats

---------------------------------------------------------------------------
(* The Textual UI: the chat list and the send flow *)

\* the chats the list shows: the entries of conversations/ that are chat files
available_chats(fs) == {c \in Chats : conversation_file(c) \in DOMAIN fs}

\* texts typed into the message input
UiTexts == {"x", "y"}

\* the files of chat "a" next to its transcript: its statistics, and when
\* `extras` its config and its custom system prompt
UiFilesOfA(n, extras) ==
    LET fa == save_statistics(save_conversation(<<>>, "a", Hist(n)),
                              "a", StatsAfter(n \div 2))
    IN  IF extras
        THEN save_system_prompt(save_chat_config(fa, "a", [model |-> "m2"]),
                                "a", "Be brief")
        ELSE fa

\* the send flow starts with chat "a" without config and custom system prompt
InitUI ==
    /\ \E n \in {0, 2}, hasB \in BOOLEAN :
          LET fa == UiFilesOfA(n, FALSE)
          IN  files = IF hasB THEN save_conversation(fa, "b", <<>>) ELSE fa
    /\ dirs = get_stats_path("a").made
    /\ fresh = [c \in Chats |-> stats_file(c) \notin DOMAIN files]
    /\ StoreIdle
    /\ CliIdle
    /\ UiIdle

\* the chat list starts with chat "a" with or without its config and custom
\* system prompt, and chat "b" present or not
InitChatList ==
    /\ \E n \in {0, 2}, hasB \in BOOLEAN, extras \in BOOLEAN :
          LET fa == UiFilesOfA(n, extras)
          IN  files = IF hasB THEN save_conversation(fa, "b", <<>>) ELSE fa
    /\ dirs = get_stats_path("a").made \cup get_system_prompt_path("a").made
    /\ fresh = [c \in Chats |-> stats_file(c) \notin DOMAIN files]
    /\ StoreIdle
    /\ CliIdle
    /\ UiIdle

\* ChatListPanel.on_mount: load_chats
UiMount ==
    /\ ui_pc = "off"
    /\ ui_pc' = "running"
    /\ ui_chats' = available_chats(files)
    /\ ui_last' = [op |-> "other"]
    /\ UNCHANGED ui_deleted
    /\ UNCHANGED <<files, dirs, ui_selected, workers, storeVars, cliVars>>

\* the highlight moves to a chat of the list
UiHighlight(c) ==
    /\ ui_pc = "running"
    /\ c \in ui_chats
    /\ ui_selected' = c
    /\ ui_last' = [op |-> "other"]
    /\ UNCHANGED ui_deleted
    /\ UNCHANGED <<files, dirs, ui_pc, ui_chats, workers, storeVars, cliVars>>

\* action_new_chat, the modal dismissed with `name` (NewChatModal dismisses
\* with the name alone, so no system prompt is saved)
UiNewChat(name) ==
    /\ ui_pc = "running"
    /\ IF conversation_file(name) \in DOMAIN files
       THEN UNCHANGED files
       ELSE files' = save_conversation(files, name, <<>>)
    /\ dirs' = dirs \cup {CONVERSATIONS_DIR}
    /\ ui_chats' = available_chats(files')
    /\ ui_selected' = name
    /\ ui_last' = [op |-> "other"]
    /\ ui_deleted' = {d \in ui_deleted : d.chat # name}
    /\ UNCHANGED <<ui_pc, workers, storeVars, cliVars>>

\* handle_result of action_delete_chat that leaves the system-prompt file
delete_chat_files_without_prompt(fs, name) ==
    [p \in DOMAIN fs \ {get_conversation_path(name).path,
                        get_chat_config_path(name).path,
                        get_stats_path(name).path} |-> fs[p]]

\* handle_result of action_delete_chat, confirmed: the files after the four
\* os.remove calls, each made when its path exists
delete_chat_files(fs, name) ==
    [p \in DOMAIN fs \ {get_conversation_path(name).path,
                        get_chat_config_path(name).path,
                        get_stats_path(name).path,
                        get_system_prompt_path(name).path} |-> fs[p]]

\* action_delete_chat for the highlighted chat, the modal dismissed with
\* `confirmed` (Yes: TRUE; No or Escape: FALSE)
UiDeleteChat(confirmed) ==
    /\ ui_pc = "running"
    /\ ui_selected # ""
    /\ ui_last' = [op |-> "delete", chat |-> ui_selected, confirmed |-> confirmed,
                   files |-> files]
    /\ IF confirmed
       THEN /\ files' = delete_chat_files(files, ui_selected)
            /\ dirs' = dirs \cup get_stats_path(ui_selected).made
                            \cup get_system_prompt_path(ui_selected).made
            /\ ui_chats' = available_chats(files')
            /\ ui_selected' = ""
            /\ ui_deleted' = {d \in ui_deleted : d.chat # ui_selected}
                  \cup {[chat |-> ui_selected,
                         in_flight |-> {i \in DOMAIN workers :
                                          /\ workers[i].chat = ui_selected
                                          /\ workers[i].pc # "dead"}]}
       ELSE UNCHANGED <<files, dirs, ui_chats, ui_selected, ui_deleted>>
    /\ UNCHANGED <<ui_pc, workers, storeVars, cliVars>>

\* GptCliApp.send_message_to_api: the list it loads, extends, saves and hands
\* to the worker thread
send_message_list(fs, name, user_message) ==
    Append(load_conversation(fs, name).value, [role |-> "user", content |-> user_message])

\* Enter in the message input with a non-empty text (MessageInput._on_key):
\* send_message_to_api for the selected chat, which starts a worker thread
UiEnter(text) ==
    /\ ui_pc = "running"
    /\ Len(workers) < MaxSends
    /\ ui_selected # ""
    /\ load_conversation(files, ui_selected).exc = ""
    /\ LET msgs == send_message_list(files, ui_selected, text)
       IN  /\ files' = save_conversation(files, ui_selected, msgs)
           /\ workers' = Append(workers,
                 [chat |-> ui_selected, text |-> text, messages |-> msgs,
                  before |-> load_conversation(files, ui_selected).value,
                  pc |-> "started", callbacks |-> 0])
    /\ dirs' = dirs \cup {CONVERSATIONS_DIR}
    /\ ui_last' = [op |-> "other"]
    /\ ui_deleted' = {d \in ui_deleted : d.chat # ui_selected}
    /\ UNCHANGED <<ui_pc, ui_chats, ui_selected, storeVars, cliVars>>

\* run_in_thread: config = gptcli.load_chat_config(chat_name)
WorkerLoadConfig(i) ==
    /\ i \in DOMAIN workers
    /\ workers[i].pc = "started"
    /\ workers' = [workers EXCEPT ![i].pc =
                      IF load_chat_config(files, workers[i].chat).exc = ""
                      THEN "config" ELSE "dead"]
    /\ dirs' = dirs \cup {CONVERSATIONS_DIR}
    /\ ui_last' = [op |-> "other"]
    /\ UNCHANGED ui_deleted
    /\ UNCHANGED <<files, ui_pc, ui_chats, ui_selected, storeVars, cliVars>>

\* a worker that gets past load_system_prompt and is answered: the reply is
\* appended to its list, the list saved and the statistics updated
WorkerRequestAnswered(i) ==
    /\ i \in DOMAIN workers
    /\ workers[i].pc = "config"
    /\ workers' = [workers EXCEPT ![i].pc = "dead", ![i].callbacks = 1]
    /\ LET msgs == Append(workers[i].messages,
                          [role |-> "assistant", content |-> "reply", model |-> DEFAULT_MODEL])
           saved == save_conversation(files, workers[i].chat, msgs)
       IN  files' = update_statistics(saved, workers[i].chat, 2, 3, 5, Some(3500), 1).files
    /\ dirs' = dirs \cup get_stats_path(workers[i].chat).made
    /\ ui_last' = [op |-> "other"]
    /\ UNCHANGED <<ui_pc, ui_chats, ui_selected, ui_deleted, storeVars, cliVars>>

\* run_in_thread: gptcli.load_system_prompt(chat_name).  gptcli defines no
\* load_system_prompt: the call raises AttributeError outside the try block
\* and the thread ends, before any request and without a callback
\* (call_from_thread is reached only inside the try block and its handlers).
WorkerLoadSystemPrompt(i) ==
    /\ i \in DOMAIN workers
    /\ workers[i].pc = "config"
    /\ workers' = [workers EXCEPT ![i].pc = "dead"]
    /\ ui_last' = [op |-> "other"]
    /\ UNCHANGED ui_deleted
    /\ UNCHANGED <<files, dirs, ui_pc, ui_chats, ui_selected, storeVars, cliVars>>

---------------------------------------------------------------------------
(* The get_*_path functions called directly *)

\* chat names: plain ones, one that ends like a config file name, one with a
\* path separator (the name is taken from the command line or the new-chat
\* dialog as typed)
PathNames == {"a", "b", "a.config", "statistics/a"}

PathFunctions == {"conversation", "chat_config", "stats", "system_prompt"}

\* the get_*_path function called `fn`
get_path(fn, name) ==
    CASE fn = "conversation" -> get_conversation_path(name)
      [] fn = "chat_config" -> get_chat_config_path(name)
      [] fn = "stats" -> get_stats_path(name)
      [] fn = "system_prompt" -> get_system_prompt_path(name)

\* the directories below CONVERSATIONS_DIR the paths of PathNames lie in
SubDirectories == {"statistics", "system_prompts"}
PathDirectories ==
    {CONVERSATIONS_DIR}
    \cup {join(CONVERSATIONS_DIR, d) : d \in SubDirectories}
    \cup {join(join(CONVERSATIONS_DIR, d), e) : d \in SubDirectories, e \in SubDirectories}

\* file names: the last component of a path
PathBaseNames ==
    {n \o x : n \in {"a", "b", "a.config"}, x \in {".json", ".config.json"}}

\* os.path.dirname(path): what precedes the last separator
dirname(path) ==
    CHOOSE d \in PathDirectories : \E b \in PathBaseNames : join(d, b) = path

\* the directories that exist before the first call
PathDirStates ==
    { {}, {CONVERSATIONS_DIR},
      {CONVERSATIONS_DIR, join(CONVERSATIONS_DIR, "statistics")},
      {CONVERSATIONS_DIR, join(CONVERSATIONS_DIR, "system_prompts")},
      {CONVERSATIONS_DIR, join(CONVERSATIONS_DIR, "statistics"),
       join(CONVERSATIONS_DIR, "system_prompts")} }

InitPaths ==
    /\ files = <<>>
    /\ dirs \in PathDirStates
    /\ fresh = [c \in Chats |-> TRUE]
    /\ ret = [op |-> "none", seen |-> {}]
    /\ lastSaved = [c \in Chats |-> None]
    /\ acc = [c \in Chats |-> ZeroAcc]
    /\ ops = 0
    /\ CliIdle
    /\ UiIdle

\* one call of a get_*_path function; seen collects what the calls returned
CallGetPath(fn, name) ==
    /\ ops < MaxOps
    /\ ops' = ops + 1
    /\ dirs' = dirs \cup get_path(fn, name).made
    /\ ret' = [op |-> "get_path", fn |-> fn, name |-> name,
               path |-> get_path(fn, name).path,
               seen |-> ret.seen \cup {<<fn, name, get_path(fn, name).path>>}]
    /\ UNCHANGED <<files, lastSaved, fresh, acc, cliVars, uiVars>>

\* the conversations directory is removed between two calls
RemoveConversationsDir ==
    /\ dirs # {}
    /\ dirs' = {}
    /\ ret' = [op |-> "rmtree", seen |-> ret.seen]
    /\ UNCHANGED <<files, lastSaved, fresh, acc, ops, cliVars, uiVars>>

NextPaths ==
    \/ \E fn \in PathFunctions, name \in PathNames : CallGetPath(fn, name)
    \/ RemoveConversationsDir

\* the chat list panel: mounting, moving the highlight, new chat, delete chat
NextChatList ==
    \/ UiMount
    \/ \E c \in Chats : UiHighlight(c)
    \/ \E c \in Chats : UiNewChat(c)
    \/ \E b \in BOOLEAN : UiDeleteChat(b)

\* the send flow: the chat list without delete, the message input, the workers
NextUI ==
    \/ UiMount
    \/ \E c \in Chats : UiHighlight(c)
    \/ \E c \in Chats : UiNewChat(c)
    \/ \E t \in UiTexts : UiEnter(t)
    \/ \E i \in 1..MaxSends : WorkerLoadConfig(i)
    \/ \E i \in 1..MaxSends : WorkerLoadSystemPrompt(i)

\* the send flow together with delete-chat
NextDelete ==
    \/ UiMount
    \/ \E c \in Chats : UiHighlight(c)
    \/ \E c \in Chats : UiNewChat(c)
    \/ Len(workers) < MaxDeleteSends /\ UiEnter("x")
    \/ \E i \in 1..MaxDeleteSends : WorkerLoadConfig(i)
    \/ \E i \in 1..MaxDeleteSends : WorkerLoadSystemPrompt(i)
    \/ \E b \in BOOLEAN : UiDeleteChat(b)

vars == <<files, dirs, storeVars, cliVars, uiVars>>

SpecConversations == InitConversations /\ [][NextConversations]_vars

SpecStatistics == InitStatistics /\ [][NextStatistics]_vars

SpecCLI == InitCLI /\ [][NextCLI]_vars

SpecUI == InitUI /\ [][NextUI]_vars

SpecChatList == InitChatList /\ [][NextChatList]_vars

SpecConfig == InitConfig /\ [][NextConfig]_vars

SpecChatConfig == InitChatConfig /\ [][NextChatConfig]_vars

SpecCost == InitCost /\ [][NextCost]_vars

SpecPaths == InitPaths /\ [][NextPaths]_vars

SpecTemporary == InitCLI /\ [][NextTemporary]_vars

SpecDelete == InitUI /\ [][NextDelete]_vars

SpecListing == InitListing /\ [][NextListing]_vars

---------------------------------------------------------------------------
(* Claims about the store functions *)

\* the statistics record persisted for chat c (the statistics file as written)
PersistedStats(c) == json_value(files[stats_file(c)])

\* C1: starting from a chat with no statistics file, after any sequence of
\* update_statistics calls each persisted counter equals the sum of the
\* corresponding arguments, total_cost the sum of the non-None costs, and
\* request_count the number of calls (no file while there was no call).
C1_StatisticsAccumulate ==
    \A c \in Chats :
        fresh[c] =>
            IF acc[c].n = 0
            THEN stats_file(c) \notin DOMAIN files
            ELSE /\ stats_file(c) \in DOMAIN files
                 /\ files[stats_file(c)].kind = "obj"
                 /\ PersistedStats(c) =
                        [total_input_tokens |-> acc[c].in,
                         total_output_tokens |-> acc[c].out,
                         total_tokens |-> acc[c].tot,
                         total_cost |-> acc[c].cost,
                         total_time |-> acc[c].time,
                         request_count |-> acc[c].n]

\* C1 witness: three calls on a fresh chat, one of them with cost None
C1_Witness ==
    /\ fresh["a"]
    /\ acc["a"] = [in |-> 151, out |-> 277, tot |-> 428, cost |-> 7, time |-> 16, n |-> 3]
    /\ PersistedStats("a")["request_count"] = 3

ConversationKind(c) ==
    IF conversation_file(c) \in DOMAIN files THEN files[conversation_file(c)].kind
    ELSE "missing"

\* C5: load_conversation never raises; it returns [] when the file is missing,
\* is not valid JSON or holds JSON that is not a list, and a non-empty value
\* only when the file holds a JSON list.
C5_LoadConversationNeverRaises ==
    ret.op = "load_conversation" =>
        /\ ret.result.exc = ""
        /\ ConversationKind(ret.chat) # "list" => ret.result.value = <<>>
        /\ ret.result.value # <<>> => ConversationKind(ret.chat) = "list"

---------------------------------------------------------------------------
(* Claims about the CLI session *)

\* a statistics counter of chat c persisted in the files fs, 0 while there is
\* no statistics file
CounterIn(fs, c, k) ==
    IF stats_file(c) \in DOMAIN fs THEN json_value(fs[stats_file(c)])[k] ELSE 0

Counter(c, k) == CounterIn(files, c, k)

\* C2: statistics are never decremented: no operation of the session on a
\* chat (nothing here deletes one) leaves a persisted counter smaller than it
\* was before the operation, that is, when the line it handles was read.
C2_StatisticsNeverDecrease ==
    \A c \in Chats : \A k \in Range(StatKeys) :
        Counter(c, k) >= CounterIn(atPrompt.files, c, k)

\* C2 witness: two exchanges were added to statistics that existed before
C2_Witness ==
    /\ Counter("a", "request_count") = 7
    /\ Counter("a", "total_tokens") > 25
    /\ pc = "prompt"

\* C3: the persisted request_count of a chat always equals the number of
\* exchanges with it that completed successfully; an exchange that fails with
\* an API error leaves the statistics unchanged.
C3_RequestCountIsSuccesses ==
    /\ \A c \in Chats : Counter(c, "request_count") = succeeded[c]
    /\ outcome = "api_error" =>
          \A c \in Chats : \A k \in Range(StatKeys) :
              Counter(c, k) = CounterIn(atPrompt.files, c, k)

\* C3 witness: a failed exchange after a successful one in a new chat
C3_Witness ==
    /\ outcome = "api_error"
    /\ chat_name = "b"
    /\ succeeded["b"] = 1
    /\ Counter("b", "request_count") = 1

\* C6: after each successful turn in a named CLI chat the conversation file
\* equals the full in-memory transcript: every earlier message, the new user
\* message and the new reply, not the 10-message window sent to the API.
C6_PersistedWholesale ==
    (pc = "prompt" /\ outcome = "ok" /\ chat_name # "") =>
        /\ conversation_file(chat_name) \in DOMAIN files
        /\ files[conversation_file(chat_name)].kind = "list"
        /\ json_value(files[conversation_file(chat_name)]) = messages
        /\ Len(messages) = Len(atPrompt.messages) + 2
        /\ SubSeq(messages, 1, Len(atPrompt.messages)) = atPrompt.messages
        /\ messages[Len(messages) - 1] = [role |-> "user", content |-> user_input.text]
        /\ messages[Len(messages)].role = "assistant"

\* C6 witness: a successful turn on a transcript longer than the window
C6_Witness ==
    /\ pc = "prompt"
    /\ outcome = "ok"
    /\ chat_name = "a"
    /\ Len(messages) > WindowSize + 1
    /\ Len(api_messages) = WindowSize

\* C7: the request payload, leaving aside an inserted system prompt, consists
\* of exactly the last min(10, n) messages of the n-message transcript, in
\* order, the newest being the just-entered user message.
C7_RequestWindow ==
    pc \in {"stream", "fallback"} =>
        LET n == Len(messages)
            k == IF n < WindowSize THEN n ELSE WindowSize
            body == IF current_system_prompt # "" THEN Tail(api_messages)
                    ELSE api_messages
        IN  /\ Len(body) = k
            /\ \A i \in 1..k : body[i] = messages[n - k + i]
            /\ body[k] = [role |-> "user", content |-> user_input.text]
            /\ current_system_prompt # "" =>
                   api_messages[1] = [role |-> "system", content |-> current_system_prompt]

\* C7 witness: a request for a transcript of more than ten messages, with a
\* system prompt in effect
C7_Witness ==
    /\ pc = "stream"
    /\ Len(messages) = WindowSize + 1
    /\ current_system_prompt # ""
    /\ Len(api_messages) = WindowSize + 1

\* C8: when the API call raises an API error (streaming or fallback) the
\* just-added user message is removed: at the next prompt the transcript is
\* the one before the failed input, nothing was persisted for the turn, and
\* entering the same text again leaves that user message in it only once.
C8_CliRollback ==
    /\ outcome = "api_error" =>
          /\ pc = "prompt"
          /\ messages = atPrompt.messages
          /\ files = atPrompt.files
    /\ (retry # None /\ retry[1].stage = "done") =>
          /\ Len(messages) = Len(retry[1].base) + 2
          /\ SubSeq(messages, 1, Len(retry[1].base)) = retry[1].base
          /\ messages[Len(messages) - 1] = [role |-> "user", content |-> retry[1].text]
          /\ messages[Len(messages)].role = "assistant"

\* C8 witness: the fallback request failed, the same text was entered again
\* and answered
C8_Witness ==
    /\ retry # None
    /\ retry[1].stage = "done"
    /\ retry[1].from = "fallback"
    /\ Len(retry[1].base) >= WindowSize
    /\ pc = "prompt"

---------------------------------------------------------------------------
(* Claims about the UI *)

\* worker i is running: started and not ended
Alive(i) == workers[i].pc # "dead"

\* C9: when a UI send fails, the speculatively appended user message is rolled
\* back: the chat's conversation equals the conversation before the send.
C9_UiRollback ==
    \A i \in DOMAIN workers :
        (/\ workers[i].pc = "dead"
         /\ \A j \in DOMAIN workers : j > i => workers[j].chat # workers[i].chat)
            => load_conversation(files, workers[i].chat).value = workers[i].before

\* C10: at most one request is in flight per chat: while a worker started for
\* a chat has not ended, no second one is started for the same chat.
C10_OneRequestPerChat ==
    \A i, j \in DOMAIN workers :
        (i # j /\ Alive(i) /\ Alive(j)) => workers[i].chat # workers[j].chat

\* C11: every UI request is answered: no worker run ends without exactly one
\* of the two callbacks (_update_ui_after_response, _update_ui_after_error)
\* marshalled back to the UI thread.
C11_EveryRequestAnswered ==
    \A i \in DOMAIN workers : workers[i].pc = "dead" => workers[i].callbacks = 1

\* the four files associated with chat c
ChatFiles(c) ==
    {get_conversation_path(c).path, get_chat_config_path(c).path,
     get_stats_path(c).path, get_system_prompt_path(c).path}

---------------------------------------------------------------------------
(* Claims about the lines of the CLI session *)

\* the last line read asks to leave: exit or quit in any letter case, or /quit
ExitLine ==
    /\ inputs > 0
    /\ IF user_input.slash
       THEN user_input.words # <<>> /\ Lower(user_input.words[1]) = "quit"
       ELSE Lower(user_input.text) \in {"exit", "quit"}

\* nothing of the session or on disk changed since the last line was read
\* and no request was built for it
LineChangedNothing ==
    /\ Session = atPrompt.session
    /\ files = atPrompt.files
    /\ api_messages = atPrompt.api_messages

\* C13: entering exit or quit (in any letter case) or /quit ends the input
\* loop normally, without a request, without appending to the transcript and
\* without writing a file.
C13_ExitEndsSession ==
    ExitLine => (pc = "exited" /\ LineChangedNothing)

\* C13 witness: /QUIT typed in a chat that has a transcript
C13_Witness ==
    /\ pc = "exited"
    /\ user_input = [slash |-> TRUE, words |-> <<"QUIT">>]
    /\ chat_name = "a"
    /\ Len(messages) >= 2

\* the last line read is an empty '/' or a '/' with an unknown command word
UnknownCommandLine ==
    /\ inputs > 0
    /\ user_input.slash
    /\ (user_input.words = <<>> \/ Lower(user_input.words[1]) \notin KnownCommands)

\* C14: an empty or unknown slash-command changes nothing: transcript, chat,
\* model, system prompt, chat config and files stay as they were, no request is
\* sent and the session is at the next prompt.
C14_UnknownCommandIgnored ==
    UnknownCommandLine => (pc = "prompt" /\ outcome = "command" /\ LineChangedNothing)

\* C14 witness: /bogus typed in a chat with a changed model and a transcript
C14_Witness ==
    /\ UnknownCommandLine
    /\ user_input.words = <<"bogus">>
    /\ chat_name = "a"
    /\ current_model = "m2"
    /\ messages # <<>>
    /\ conversation_file("a") \in DOMAIN files

\* the config stored for chat c ({} when it has no config file)
StoredConfig(c) ==
    IF get_chat_config_path(c).path \in DOMAIN files
    THEN json_value(files[get_chat_config_path(c).path])
    ELSE <<>>

\* a chat was just loaded: by /switch-chat, or at start-up with --chat-name
ChatLoaded ==
    /\ pc = "prompt"
    /\ \/ inputs = 0 /\ chat_name # ""
       \/ /\ inputs > 0
          /\ user_input.slash
          /\ Len(user_input.words) >= 2
          /\ Lower(user_input.words[1]) = "switch-chat"

\* C15: after loading a chat the session model is the chat's configured model
\* when it has one and the global default otherwise, and the system prompt is
\* the preset the config names, else the configured text, else none, whatever
\* model and system prompt were in effect before.
C15_ChatConfigFallback ==
    ChatLoaded =>
        LET cfg == StoredConfig(chat_name)
        IN  /\ (inputs > 0 => chat_name = user_input.words[2])
            /\ chat_config = cfg
            /\ current_model = IF "model" \in DOMAIN cfg /\ cfg["model"] # ""
                               THEN cfg["model"] ELSE DEFAULT_MODEL
            /\ current_system_prompt =
                  IF "system_prompt" \notin DOMAIN cfg \/ cfg["system_prompt"] = "" THEN ""
                  ELSE IF cfg["system_prompt"] \in DOMAIN SYSTEM_PROMPTS
                       THEN SYSTEM_PROMPTS[cfg["system_prompt"]]
                       ELSE cfg["system_prompt"]

\* C15 witness: a switch from a chat with its own model and system prompt to
\* a chat without config
C15_Witness ==
    /\ ChatLoaded
    /\ inputs > 0
    /\ chat_name = "b"
    /\ atPrompt.session.current_model = "m2"
    /\ atPrompt.session.current_system_prompt # ""
    /\ current_model = DEFAULT_MODEL
    /\ current_system_prompt = ""

---------------------------------------------------------------------------
(* Claims about the global config *)

\* the object the config file held before the last call, None when the file
\* was missing or held no JSON object
ConfigObjectBefore ==
    IF CONFIG_PATH \in DOMAIN ret.before /\ ret.before[CONFIG_PATH].kind = "obj"
    THEN Some(ret.before[CONFIG_PATH])
    ELSE None

\* the member the file held under k when it had the JSON type `kind`, else None
ConfigMemberBefore(k, kind) ==
    IF ConfigObjectBefore # None /\ is_json(ConfigObjectBefore[1], k, kind)
    THEN json_get(ConfigObjectBefore[1], k)
    ELSE None

\* C16: for every content of the config file load_config returns a config
\* with every built-in key; a string-valued default_model, user_name,
\* user_color or assistant_color of the file overrides the default; pricing
\* and system_prompts are the built-in entries updated by the file's entries;
\* wrong-typed fields are ignored.
C16_ConfigMergedOverDefaults ==
    ret.op = "load_config" =>
        /\ ret.result.exc = ""
        /\ DOMAIN ret.result.value = DOMAIN DEFAULT_CONFIG
        /\ \A k \in Range(ConfigStringKeys) :
              ret.result.value[k] =
                  IF ConfigMemberBefore(k, "str") # None
                  THEN ConfigMemberBefore(k, "str")[1].s
                  ELSE DEFAULT_CONFIG[k]
        /\ \A k \in {"pricing", "system_prompts"} :
              LET got == ret.result.value[k]
                  given == IF ConfigMemberBefore(k, "obj") # None
                           THEN json_value(ConfigMemberBefore(k, "obj")[1])
                           ELSE <<>>
              IN  /\ DOMAIN got = DOMAIN DEFAULT_CONFIG[k] \cup DOMAIN given
                  /\ \A e \in DOMAIN got :
                        got[e] = IF e \in DOMAIN given THEN given[e]
                                 ELSE DEFAULT_CONFIG[k][e]

---------------------------------------------------------------------------
(* Claims about loading statistics and chat configs *)

\* the kind of content the file at path p holds ("missing" when absent)
FileKind(p) == IF p \in DOMAIN files THEN files[p].kind ELSE "missing"

\* C17: load_statistics never raises: it returns a record with all six
\* counters, all zero when the file is missing or corrupt (no JSON object),
\* and otherwise each stored field with its value and each missing one zero.
C17_LoadStatisticsDegrades ==
    ret.op = "load_statistics" =>
        /\ ret.result.exc = ""
        /\ DOMAIN ret.result.value = Range(StatKeys)
        /\ IF FileKind(stats_file(ret.chat)) = "obj"
           THEN LET stored == json_value(files[stats_file(ret.chat)])
                IN  \A k \in Range(StatKeys) :
                       ret.result.value[k] = IF k \in DOMAIN stored THEN stored[k] ELSE 0
           ELSE \A k \in Range(StatKeys) : ret.result.value[k] = 0

\* C18: load_chat_config never raises; it returns {} when the config file is
\* missing, is not valid JSON or holds no JSON object, and the stored object
\* otherwise, so that it returns the config last saved for the chat.
C18_LoadChatConfigNeverRaises ==
    ret.op = "load_chat_config" =>
        /\ ret.result.exc = ""
        /\ ret.result.value =
              IF FileKind(chat_config_file(ret.chat)) = "obj"
              THEN json_value(files[chat_config_file(ret.chat)])
              ELSE <<>>
        /\ lastSaved[ret.chat] # None => ret.result.value = lastSaved[ret.chat][1]

---------------------------------------------------------------------------
(* Claims about calculate_cost *)

\* the model has an entry in the pricing table
HasPricing == ret.model \in DOMAIN ret.pricing

\* the entry holds both prices
HasPrices == HasPricing /\ {"input", "output"} \subseteq DOMAIN ret.pricing[ret.model]

\* C19: calculate_cost returns None exactly when the model has no entry in
\* the pricing table, whatever the token counts; for a model with an entry it
\* always returns a number, zero for zero tokens.
C19_CostNoneIffUnpriced ==
    ret.op = "calculate_cost" =>
        /\ ret.c1.exc = ""
        /\ (ret.c1.value = None) <=> ~HasPricing
        /\ HasPricing =>
              /\ ret.c1.value[1].m \in Nat
              /\ (ret.i1 = 0 /\ ret.o1 = 0) => ret.c1.value[1] = FloatZero

RECURSIVE GCD(_, _)
GCD(a, b) == IF b = 0 THEN a ELSE GCD(b, a % b)

Abs(x) == IF x < 0 THEN -x ELSE x

\* the exact cost of (i, o) tokens, i*pi/1e6 + o*po/1e6, as a fraction in
\* lowest terms (the pricing table holds hundredths)
ExactCost(i, o) ==
    LET pricing == ret.pricing[ret.model]
        n == i * pricing.input + o * pricing.output
        d == 100 * 1000000
        g == GCD(n, d)
    IN  [n |-> n \div g, d |-> d \div g]

\* the float x is exactly the fraction q
FloatEquals(x, q) ==
    IF x.m = 0 THEN q.n = 0
    ELSE IF x.e >= 0 THEN x.m * Pow2(x.e) * q.d = q.n
    ELSE x.m * q.d = q.n * Pow2(-x.e)

\* the float x is within `roundings` * 2^-FloatPrecision * q of the fraction q
\* (x is of the magnitude of q and below 1)
FloatNear(x, q, roundings) ==
    IF x.m = 0 THEN q.n = 0
    ELSE Abs(x.m * q.d - q.n * Pow2(-x.e))
            <= (q.n * Pow2(-x.e)) \div (Pow2(FloatPrecision) \div roundings)

\* the floats x and y are within `roundings` * 2^-FloatPrecision * q of each other
FloatsNear(x, y, q, roundings) ==
    IF x.m = 0 \/ y.m = 0 THEN x = y
    ELSE LET low == IF x.e < y.e THEN x.e ELSE y.e
             ix == x.m * Pow2(x.e - low)
             iy == y.m * Pow2(y.e - low)
         IN  Abs(ix - iy) * q.d
                <= (q.n * Pow2(-low)) \div (Pow2(FloatPrecision) \div roundings)

\* C20 as stated: for a model with prices (pi, po), calculate_cost(model, i, o)
\* equals i*pi/1e6 + o*po/1e6, calculate_cost(m, i1+i2, o1+o2) equals
\* calculate_cost(m, i1, o1) + calculate_cost(m, i2, o2), and scaling both
\* token counts by k scales the cost by k.
C20_CostLinearExactly ==
    (ret.op = "calculate_cost" /\ HasPrices) =>
        /\ FloatEquals(ret.c1.value[1], ExactCost(ret.i1, ret.o1))
        /\ ret.of_sum.value = ret.sum
        /\ ret.of_scaled.value = ret.scaled

\* C20 amended: the equalities hold up to floating-point rounding:
\* calculate_cost(model, i, o) is within 4 roundings (4 * 2^-precision,
\* relative) of i*pi/1e6 + o*po/1e6 and is exactly 0 for zero tokens; the cost
\* of summed token counts and the sum of the costs, and the cost of scaled
\* token counts and the scaled cost, differ by at most 8 roundings of the
\* exact cost.
C20_CostLinearUpToRounding ==
    (ret.op = "calculate_cost" /\ HasPrices) =>
        /\ FloatNear(ret.c1.value[1], ExactCost(ret.i1, ret.o1), 4)
        /\ FloatsNear(ret.of_sum.value[1], ret.sum[1],
                      ExactCost(ret.i1 + ret.i2, ret.o1 + ret.o2), 8)
        /\ FloatsNear(ret.of_scaled.value[1], ret.scaled[1],
                      ExactCost(ret.k * ret.i1, ret.k * ret.o1), 8)

\* C20 witness: costs of a priced model that are not exactly additive
C20_Witness ==
    /\ ret.op = "calculate_cost"
    /\ HasPrices
    /\ ret.i1 > 0
    /\ ret.o2 > 0
    /\ ret.of_sum.value # ret.sum

---------------------------------------------------------------------------
(* Claims about the path functions *)

\* C21: each get_*_path function returns the same path for the same chat name
\* on every call, whatever directories exist before, and after the call the
\* directory that contains the returned path exists.
C21_PathsDeterministicDirsCreated ==
    ret.op = "get_path" =>
        /\ \A t \in ret.seen, u \in ret.seen :
              (t[1] = u[1] /\ t[2] = u[2]) => t[3] = u[3]
        /\ dirname(ret.path) \in dirs

\* C30: for two distinct chat names none of the four file paths of the one
\* equals a file path of the other, and the four paths of one chat differ.
C30_ChatsShareNoFiles ==
    \A t \in ret.seen, u \in ret.seen :
        (t[1] # u[1] \/ t[2] # u[2]) => t[3] # u[3]

---------------------------------------------------------------------------
(* Claims about the temporary conversation *)

\* C22: temporary conversations are not saved: update_statistics with an empty
\* chat name writes no statistics file, and a session without a chat name
\* writes no conversation, config or statistics file, whatever exchanges and
\* /change-model and /system-prompt commands it sees: the files stay the ones
\* present when the session started.
C22_TemporaryNotSaved ==
    chat_name = "" =>
        /\ files = atPrompt.files
        /\ \A p \in DOMAIN files : p \in ChatFiles("a")

\* C22 witness: a completed exchange after /change-model and /system-prompt in
\* a session without a chat name, and update_statistics called with no name
C22_Witness ==
    /\ chat_name = ""
    /\ pc = "prompt"
    /\ current_model = "m2"
    /\ current_system_prompt = "Be brief"
    /\ Len(messages) = 2
    /\ ret.op = "update_statistics"
    /\ ret.chat = ""

---------------------------------------------------------------------------
(* Claims about get_available_chats *)

\* chat names in ascending order
NamesAscending == <<"a", "a.config", "b", "d">>
NameIndex(n) == CHOOSE i \in DOMAIN NamesAscending : NamesAscending[i] = n

\* C23: get_available_chats returns the chats sorted by name in ascending order.
C23_ChatsSortedByName ==
    (ret.op = "get_available_chats" /\ ret.result.exc = "") =>
        \A i \in DOMAIN ret.result.value, j \in DOMAIN ret.result.value :
            i < j => NameIndex(ret.result.value[i].name)
                        < NameIndex(ret.result.value[j].name)

\* the entries of the conversations directory that are chats: no directory,
\* a name that ends in '.json' but not in '.config.json'
ChatEntries ==
    {e \in listdir(files, dirs) :
        /\ join(CONVERSATIONS_DIR, e) \notin dirs
        /\ endswith(e, ".json")
        /\ ~endswith(e, ".config.json")}

---------------------------------------------------------------------------
(* Claims about the session's system prompt and transcript *)

\* the line handled last was '/system-prompt <args>' in a named chat
SystemPromptSet ==
    /\ pc = "prompt"
    /\ outcome = "command"
    /\ user_input.slash
    /\ Len(user_input.words) > 1
    /\ Lower(user_input.words[1]) = "system-prompt"
    /\ chat_name # ""

\* C26: after '/system-prompt <args>' in a named chat (preset name or free
\* text), reloading the chat (switching back to it, or restarting with its
\* name) yields the system prompt that was in effect right after the command,
\* and the command leaves the chat's configured model unchanged.
C26_SystemPromptRoundTrip ==
    SystemPromptSet =>
        /\ load_chat(files, chat_name).current_system_prompt = current_system_prompt
        /\ cli_startup(files, chat_name, "").sess.current_system_prompt
              = current_system_prompt
        /\ Get(load_chat_config(files, chat_name).value, "model")
              = Get(load_chat_config(atPrompt.files, chat_name).value, "model")

\* C25: when a system prompt is in effect, the payload of every request starts
\* with exactly that system prompt, whatever the length of the transcript, and
\* holds no second system entry: the window of the transcript follows it.
C25_SystemPromptSurvivesWindow ==
    (pc \in {"stream", "fallback"} /\ current_system_prompt # "") =>
        /\ api_messages # <<>>
        /\ api_messages[1] = [role |-> "system", content |-> current_system_prompt]
        /\ Cardinality({i \in DOMAIN api_messages : api_messages[i].role = "system"}) = 1
        /\ Tail(api_messages) = build_api_messages(messages, "")

\* C25 witness: a request in its fallback stage for a transcript the window
\* cuts by more than one message, with a system prompt in effect
C25_Witness ==
    /\ pc = "fallback"
    /\ current_system_prompt # ""
    /\ Len(messages) > WindowSize + 1
    /\ Len(api_messages) = WindowSize + 1
    /\ api_messages[1].role = "system"

\* the session stands at a prompt that follows an earlier prompt of the same chat
PromptAfterPrompt ==
    /\ pc = "prompt"
    /\ outcome # "none"
    /\ atPrompt.session.chat_name = chat_name

\* the transcript is the one of the previous prompt, or that one extended by
\* one user message followed by one assistant message
TranscriptStep ==
    \/ messages = atPrompt.messages
    \/ /\ Len(messages) = Len(atPrompt.messages) + 2
       /\ SubSeq(messages, 1, Len(atPrompt.messages)) = atPrompt.messages
       /\ messages[Len(messages) - 1].role = "user"
       /\ messages[Len(messages)].role = "assistant"

\* the transcript ends with a user message
EndsUnanswered == messages # <<>> /\ messages[Len(messages)].role = "user"

\* C27: between two consecutive prompts within one chat the transcript is
\* unchanged or extended by exactly one user message and one assistant message
\* (so it never shrinks), and at no prompt does it end with an unanswered user
\* message.
C27_TranscriptShape ==
    /\ PromptAfterPrompt => TranscriptStep
    /\ pc = "prompt" => ~EndsUnanswered

\* the conversation file of the chat worker i was started for, as it reads now
FileNow(i) == load_conversation(files, workers[i].chat).value

\* the messages send i saved are in the file, at the positions they were saved at
SavedStays(i) ==
    /\ Len(FileNow(i)) >= Len(workers[i].messages)
    /\ SubSeq(FileNow(i), 1, Len(workers[i].messages)) = workers[i].messages

\* the replies in the file behind the messages that were there before send i
RepliesSince(i) ==
    {k \in DOMAIN FileNow(i) :
        k > Len(workers[i].before) /\ FileNow(i)[k].role = "assistant"}

\* the worker runs for the chat of send i, started by send i or later, that ended
EndedSince(i) ==
    {j \in DOMAIN workers :
        j >= i /\ workers[j].chat = workers[i].chat /\ workers[j].pc = "dead"}

\* C28: under every interleaving of UI sends and worker runs a message saved
\* to a chat's conversation file stays in the file at its position, and every
\* send whose worker has ended has its user message and its reply in the file
\* (two sends to one chat: both user messages and both replies).
C28_AppendOnlyBothAnswered ==
    \A i \in DOMAIN workers :
        /\ SavedStays(i)
        /\ Cardinality(RepliesSince(i)) >= Cardinality(EndedSince(i))

\* C29: a chat that was deleted, and neither created nor sent to since, has
\* none of its four files, whatever the workers in flight at the delete did
\* afterwards.
C29_DeletedStaysDeleted ==
    \A d \in ui_deleted : ChatFiles(d.chat) \cap DOMAIN files = {}

\* C29 witness: a chat was deleted while a request to it was in flight, and
\* the worker of that request has ended since
C29_Witness ==
    \E d \in ui_deleted :
        \E i \in d.in_flight :
            /\ workers[i].pc = "dead"
            /\ workers[i].chat = d.chat

====
